---- MODULE Spec2Model ----
(***************************************************************************)
(* CineTrack: the local-storage variants of the App component, the modal   *)
(* form that feeds it, and the text conversions (JSON, UTF-8, base64, URL  *)
(* query parameter) the persistence and share-link paths go through.       *)
(*                                                                         *)
(*   variant = "share" : src/cinetrack/App.tsx with the range-slider form  *)
(*                       of src/components/ShowModal.tsx                   *)
(*   variant = "file"  : src/unnamed/part_003 (same code as part_002) with *)
(*                       the numeric-field form of src/unnamed/part_001    *)
(*                                                                         *)
(* Spec runs both components from the opening of the page: startup, the    *)
(* modal form, delete and import.  ImportSpec starts on a loaded archive   *)
(* and runs the import handlers; TransferSpec starts on a loaded archive   *)
(* and runs share link, export, delete and re-import.                      *)
(*                                                                         *)
(* Ratings are kept in tenths (30 is 3.0).  Texts are sequences of code    *)
(* points, byte strings are sequences of 0..255, base64 texts are          *)
(* sequences of symbols 0..63 with Pad for '=' and Space for ' '.          *)
(***************************************************************************)
EXTENDS Integers, Sequences, FiniteSets, TLC

\* an absent value (null, undefined) is the empty tuple, a present one v is <<v>>
None == <<>>
Some(v) == <<v>>
\* Number.NaN, as parseFloat('') returns it
NaN == -1
\* formData.id of a new record (undefined) and formData.title of an empty field ('')
NoId == 0
NoTitle == 0

(* ----------------------------- bounds ---------------------------------- *)

\* longest collection the create handler is let to build, longest initial archive
MaxShows == 2
\* longest imported list
MaxIncoming == 2
\* longest collection an import is let to build
MaxMerged == 3
\* how many writes the page sends to the document store
MaxWrites == 2
\* how many alert dialogs are raised
MaxAlerts == 2
\* how many times the sync button is used
MaxSyncs == 2
\* how many revisions the remote file goes through
MaxRevisions == 2
\* longest collection the list view is given
MaxListed == 3

(* ------------------------- characters ---------------------------------- *)

\* the code points of the JSON punctuation and of the digit zero
Ch == [lbracket |-> 91, rbracket |-> 93, lbrace |-> 123, rbrace |-> 125,
       comma |-> 44, newline |-> 10, blank |-> 32, digit0 |-> 48,
       letterA |-> 65, letterL |-> 108, letterS |-> 83, letterT |-> 84, greater |-> 62, question |-> 63,
       eacute |-> 233]
LBracket == Ch.lbracket
RBracket == Ch.rbracket
LBrace == Ch.lbrace
RBrace == Ch.rbrace
Comma == Ch.comma
Newline == Ch.newline
Blank == Ch.blank
Digit0 == Ch.digit0

\* base64 symbols: 0..63 are the alphabet ('+' is 62, '/' is 63), then '=' and ' '
B64 == [plus |-> 62, slash |-> 63, pad |-> 64, space |-> 65]
Plus == B64.plus
Pad == B64.pad
Space == B64.space

RECURSIVE SelectSeqOp(_, _)
\* Array.prototype.filter with the predicate given as a set of kept values
SelectSeqOp(s, keep) ==
  IF s = <<>> THEN <<>>
  ELSE IF Head(s) \in keep THEN <<Head(s)>> \o SelectSeqOp(Tail(s), keep)
       ELSE SelectSeqOp(Tail(s), keep)

(* ------------------------------ JSON ----------------------------------- *)
\* A record is written as four characters: the identifier digit, the one
\* character title and the two digits of the rating; records are separated
\* by commas inside brackets.  "{}" stands for any JSON text that is not an
\* array.

Digit(d) == Digit0 + d

RecText(s) == <<Digit(s.id), s.title, Digit(s.userRating \div 10), Digit(s.userRating % 10)>>

RECURSIVE JoinRecs(_, _)
JoinRecs(list, sep) ==
  IF list = <<>> THEN <<>>
  ELSE IF Len(list) = 1 THEN RecText(list[1])
       ELSE RecText(list[1]) \o sep \o JoinRecs(Tail(list), sep)

\* JSON.stringify(shows)
Stringify(list) == <<LBracket>> \o JoinRecs(list, <<Comma>>) \o <<RBracket>>

\* a pretty printer that forgets the commas between the records
StringifyPrettyNoCommas(list) ==
  <<LBracket, Newline>> \o JoinRecs(list, <<Newline>>) \o <<Newline, RBracket>>

\* JSON.stringify(shows, null, 2): the same text with line breaks and indentation
StringifyPretty(list) ==
  IF list = <<>> THEN <<LBracket, RBracket>>
  ELSE <<LBracket, Newline, Blank, Blank>>
         \o JoinRecs(list, <<Comma, Newline, Blank, Blank>>)
         \o <<Newline, RBracket>>

IsDigit(c) == c \in Digit0..(Digit0 + 9)

ParseFail == [ok |-> FALSE, isArray |-> FALSE, val |-> <<>>]

RECURSIVE ParseRecs(_)
\* the records of a bracket's inside, or ParseFail
ParseRecs(t) ==
  IF Len(t) < 4 \/ ~IsDigit(t[1]) \/ ~IsDigit(t[3]) \/ ~IsDigit(t[4])
       \/ t[2] \in {Comma, LBracket, RBracket}
  THEN ParseFail
  ELSE LET rec == [id |-> t[1] - Digit0, title |-> t[2],
                   userRating |-> 10 * (t[3] - Digit0) + (t[4] - Digit0)]
       IN IF Len(t) = 4 THEN [ok |-> TRUE, isArray |-> TRUE, val |-> <<rec>>]
          ELSE IF t[5] # Comma THEN ParseFail
          ELSE LET rest == ParseRecs(SubSeq(t, 6, Len(t)))
               IN IF rest.ok
                  THEN [ok |-> TRUE, isArray |-> TRUE, val |-> <<rec>> \o rest.val]
                  ELSE ParseFail

\* JSON.parse(text): ok = FALSE is the SyntaxError it throws
JsonParse(text) ==
  LET t == SelectSeqOp(text, (0..2047) \ {Newline, Blank})
  IN IF t = <<LBrace, RBrace>> THEN [ok |-> TRUE, isArray |-> FALSE, val |-> <<>>]
     ELSE IF Len(t) < 2 \/ t[1] # LBracket \/ t[Len(t)] # RBracket THEN ParseFail
     ELSE IF Len(t) = 2 THEN [ok |-> TRUE, isArray |-> TRUE, val |-> <<>>]
     ELSE ParseRecs(SubSeq(t, 2, Len(t) - 1))

(* ------------------------------ UTF-8 ---------------------------------- *)

RECURSIVE Utf8Encode(_)
\* encodeURIComponent(text) with every %XX turned back into the byte XX
Utf8Encode(text) ==
  IF text = <<>> THEN <<>>
  ELSE LET c == Head(text)
       IN (IF c < 128 THEN <<c>> ELSE <<192 + (c \div 64), 128 + (c % 64)>>)
            \o Utf8Encode(Tail(text))

BytesFail == [ok |-> FALSE, val |-> <<>>]

RECURSIVE Utf8Decode(_)
\* decodeURIComponent of the bytes written as %xx; ok = FALSE is its URIError
Utf8Decode(bytes) ==
  IF bytes = <<>> THEN [ok |-> TRUE, val |-> <<>>]
  ELSE LET b == Head(bytes)
       IN IF b < 128
          THEN LET rest == Utf8Decode(Tail(bytes))
               IN IF rest.ok THEN [ok |-> TRUE, val |-> <<b>> \o rest.val] ELSE BytesFail
          ELSE IF b \in 194..223 /\ Len(bytes) >= 2 /\ bytes[2] \in 128..191
          THEN LET rest == Utf8Decode(SubSeq(bytes, 3, Len(bytes)))
               IN IF rest.ok
                  THEN [ok |-> TRUE, val |-> <<(b - 192) * 64 + (bytes[2] - 128)>> \o rest.val]
                  ELSE BytesFail
          ELSE BytesFail

(* ------------------------------ base64 --------------------------------- *)

RECURSIVE Btoa(_)
\* btoa(binaryString)
Btoa(bytes) ==
  IF bytes = <<>> THEN <<>>
  ELSE IF Len(bytes) = 1
  THEN <<bytes[1] \div 4, (bytes[1] % 4) * 16, Pad, Pad>>
  ELSE IF Len(bytes) = 2
  THEN <<bytes[1] \div 4, (bytes[1] % 4) * 16 + (bytes[2] \div 16), (bytes[2] % 16) * 4, Pad>>
  ELSE <<bytes[1] \div 4, (bytes[1] % 4) * 16 + (bytes[2] \div 16),
         (bytes[2] % 16) * 4 + (bytes[3] \div 64), bytes[3] % 64>>
         \o Btoa(SubSeq(bytes, 4, Len(bytes)))

RECURSIVE AtobGroups(_)
AtobGroups(d) ==
  IF d = <<>> THEN <<>>
  ELSE IF Len(d) = 2 THEN <<d[1] * 4 + (d[2] \div 16)>>
  ELSE IF Len(d) = 3 THEN <<d[1] * 4 + (d[2] \div 16), (d[2] % 16) * 16 + (d[3] \div 4)>>
  ELSE <<d[1] * 4 + (d[2] \div 16), (d[2] % 16) * 16 + (d[3] \div 4), (d[3] % 4) * 64 + d[4]>>
         \o AtobGroups(SubSeq(d, 5, Len(d)))

\* atob(text): ASCII whitespace is removed, then padding when the length is a
\* multiple of four; ok = FALSE is the InvalidCharacterError it throws
Atob(text) ==
  LET noWs == SelectSeqOp(text, 0..Pad)
      n == Len(noWs)
      d == IF n % 4 = 0 /\ n >= 2 /\ noWs[n] = Pad /\ noWs[n - 1] = Pad THEN SubSeq(noWs, 1, n - 2)
           ELSE IF n % 4 = 0 /\ n >= 1 /\ noWs[n] = Pad THEN SubSeq(noWs, 1, n - 1)
           ELSE noWs
  IN IF Len(d) % 4 = 1 \/ \E i \in 1..Len(d) : d[i] = Pad THEN BytesFail
     ELSE [ok |-> TRUE, val |-> AtobGroups(d)]

(* --------------------------- URL parameter ----------------------------- *)

\* new URLSearchParams(search).get('data') of "?data=" followed by param:
\* application/x-www-form-urlencoded parsing reads '+' as a space
SearchParamGet(param) == [i \in 1..Len(param) |-> IF param[i] = Plus THEN Space ELSE param[i]]

\* handleShare: the text placed after "?data="
ShareParam(list) == Btoa(Utf8Encode(Stringify(list)))

\* loadInitialData: the decoding of the 'data' parameter; ok = FALSE when one of
\* atob, decodeURIComponent and JSON.parse throws
DecodeParam(dataParam) ==
  LET bytes == Atob(dataParam)
  IN IF ~bytes.ok THEN ParseFail
     ELSE LET text == Utf8Decode(bytes.val)
          IN IF ~text.ok THEN ParseFail ELSE JsonParse(text.val)

(* ------------------------------ records -------------------------------- *)

Rec(i, t, r) == [id |-> i, title |-> t, userRating |-> r]

\* DEFAULT_SHOWS: 'default-1' (The Bear, 4.8) and 'default-2' (Succession, 5.0)
DEFAULT_SHOWS == <<Rec(8, Ch.letterT, 48), Rec(9, Ch.letterS, 50)>>

\* identifiers minted outside this run (earlier sessions, other users' archives)
ForeignIds == {5, 6}

RECURSIVE IdsOf(_)
\* list.map(s => s.id)
IdsOf(list) == IF list = <<>> THEN <<>> ELSE <<Head(list).id>> \o IdsOf(Tail(list))

IdSet(list) == {list[i].id : i \in 1..Len(list)}

RECURSIVE FilterOutFirst(_, _)
\* a filter that drops only the first record carrying one of the identifiers
FilterOutFirst(prev, ids) ==
  IF prev = <<>> THEN <<>>
  ELSE IF Head(prev).id \in ids THEN Tail(prev)
       ELSE <<Head(prev)>> \o FilterOutFirst(Tail(prev), ids)

RECURSIVE FilterOutIds(_, _)
\* prev.filter(p => !ids.has(p.id))
FilterOutIds(prev, ids) ==
  IF prev = <<>> THEN <<>>
  ELSE IF Head(prev).id \in ids THEN FilterOutIds(Tail(prev), ids)
       ELSE <<Head(prev)>> \o FilterOutIds(Tail(prev), ids)

(* ------------------------------- state --------------------------------- *)

VARIABLES
  variant,      \* which App component runs: "share" or "file"
  shows,        \* useState: the in-memory collection
  storage,      \* localStorage['cinetrack_shows']: None or Some(text)
  sharedData,   \* useState: the pending shared payload, None or Some(list)
  isDataLoaded, \* useState of the "file" variant
  load,         \* where loadInitialData / initializeData stands: "mount" (effects not
                \*   run yet), "fetching" (awaiting the static file), "done", "failed" (it threw)
  pendingFile,  \* the text FileReader.readAsText is reading for importData: None or Some(text)
  isModalOpen,  \* useState
  editingShow,  \* useState: None or Some(record)
  formData,     \* useState of ShowModal
  clipboard,    \* navigator.clipboard: None or Some('data' text of the last share URL)
  exportFile,   \* None or Some(bytes of the last file exportData downloaded)
  \* part_005 (remote-document variant) and services/firebaseService.ts
  isFirebaseConnected, \* !!db, fixed when the module is loaded
  isLoading,           \* useState
  showConfigWarning,   \* useState
  cloudCalls,          \* the calls of saveShowToCloud / deleteShowFromCloud awaited
  cloudWrites,         \* how many setDoc / deleteDoc requests were issued
  alerts,              \* how many alert() dialogs were raised
  \* part_004 (commit-based sync)
  ghConfigured,        \* ghConfig.token && ghConfig.owner && ghConfig.repo
  isSettingsOpen,      \* useState
  syncStatus,          \* useState: 'idle' | 'syncing' | 'success' | 'error'
  syncCalls,           \* the calls of syncToGitHub awaiting a response
  ghRequests,          \* the requests sent to the GitHub contents API, oldest first
  remoteSha,           \* the revision marker of the remote file, 0 when there is none
  idleTimers,          \* how many setTimeout(() => setSyncStatus('idle')) are pending
  \* the list view
  searchQuery,         \* useState
  selectedYear,        \* useState: 'All' or a year
  sortType,            \* useState
  expandedId,          \* useState: None or Some(id of the expanded row)
  \* ShowModal's metadata search
  loading,             \* useState of ShowModal
  search               \* None or Some(the fetchShowMetadata call awaited)

remoteVars == <<isFirebaseConnected, isLoading, showConfigWarning, cloudCalls, cloudWrites, alerts>>
syncVars == <<ghConfigured, isSettingsOpen, syncStatus, syncCalls, ghRequests, remoteSha,
              idleTimers>>
viewVars == <<searchQuery, selectedYear, sortType, expandedId>>
modalVars == <<loading, search>>

\* the state of the variants and views the local-storage components do not have
extVars == <<remoteVars, syncVars, viewVars, modalVars>>

vars == <<variant, shows, storage, sharedData, isDataLoaded, load, pendingFile, isModalOpen,
          editingShow, formData, clipboard, exportFile, extVars>>

\* a text that is not JSON
Garbage == <<LBrace>>
\* a JSON text that is not an array
NonArrayText == <<LBrace, RBrace>>

(* ------------------------- the modal's form ---------------------------- *)

\* ShowModal: the form of a new record (title '', userRating 3.0, network '',
\* groundingLinks [], no id)
EmptyForm == [id |-> NoId, title |-> NoTitle, userRating |-> 30, network |-> <<>>,
              groundingLinks |-> <<>>]

\* ShowModal, the effect on [initialShow, isOpen]
ResetForm(initialShow) == IF initialShow # None THEN initialShow[1] ELSE EmptyForm

\* x || 0 on a number
OrZero(x) == IF x = NaN \/ x = 0 THEN 0 ELSE x

\* ShowModal.handleSave: the record handed to onSave
FinalShow(form, fresh) ==
  [id |-> IF form.id # NoId THEN form.id ELSE fresh,
   title |-> form.title,
   userRating |-> OrZero(form.userRating)]

(* --------------------------- persistence ------------------------------- *)

\* an effect that writes whatever the collection is
PersistUngated(v, list, loaded, old) == Some(Stringify(list))

\* the effect on [shows]: what localStorage holds after it ran for list
PersistEffect(v, list, loaded, old) ==
  IF v = "share" THEN (IF Len(list) > 0 THEN Some(Stringify(list)) ELSE old)
  ELSE (IF loaded THEN Some(Stringify(list)) ELSE old)

\* a string (or null) used as a condition
Truthy(opt) == opt # None /\ opt[1] # <<>>

\* JSON.parse(saved) where saved was found truthy
ParseSaved(opt) == IF Truthy(opt) THEN JsonParse(opt[1]) ELSE ParseFail

\* App.tsx, the useState initializer of shows
ShowsInitializer(saved) ==
  IF saved # None /\ JsonParse(saved[1]).ok THEN JsonParse(saved[1]).val ELSE <<>>

(* ------------------------------ inputs --------------------------------- *)

RECURSIVE SeqsUpTo(_, _)
\* the sequences over S of length at most n
SeqsUpTo(S, n) ==
  IF n = 0 THEN {<<>>}
  ELSE LET shorter == SeqsUpTo(S, n - 1)
       IN shorter \cup {<<x>> \o q : x \in S, q \in {r \in shorter : Len(r) = n - 1}}

\* the records an imported or shared list may hold
IncomingRecs == {Rec(i, Ch.letterA, 20) : i \in ForeignIds}

IncomingLists == SeqsUpTo(IncomingRecs, MaxIncoming)

\* what localStorage may hold when the page is opened
InitialStorage ==
  {None, Some(Garbage), Some(Stringify(<<>>)), Some(Stringify(<<Rec(5, Ch.letterA, 40)>>))}

\* what the 'data' parameter may hold when the page is opened: nothing, a share
\* link's text, a text atob rejects, the encoding of a JSON text that is no array
InitialParams ==
  {None, Some(<<1>>), Some(Btoa(Utf8Encode(NonArrayText)))}
    \cup {Some(SearchParamGet(ShareParam(l))) : l \in IncomingLists}

\* how the fetch of the static file may settle
FetchOutcomes ==
  {[status |-> "error", body |-> <<>>], [status |-> "notOk", body |-> <<>>]}
    \cup {[status |-> "ok", body |-> b] :
            b \in {Garbage, NonArrayText, Stringify(<<>>), Stringify(<<Rec(6, Ch.letterA, 40)>>)}}

(* -------------------- state outside the local variants ----------------- *)

\* 'All', the year filter that keeps every year
AllYears == <<Ch.letterA, Ch.letterL, Ch.letterL>>

\* the initial values of the variables a local-storage component does not have
ExtIdle ==
  /\ isFirebaseConnected = FALSE
  /\ isLoading = FALSE
  /\ showConfigWarning = FALSE
  /\ cloudCalls = <<>>
  /\ cloudWrites = 0
  /\ alerts = 0
  /\ ghConfigured = FALSE
  /\ isSettingsOpen = FALSE
  /\ syncStatus = "idle"
  /\ syncCalls = <<>>
  /\ ghRequests = <<>>
  /\ remoteSha = 0
  /\ idleTimers = 0
  /\ searchQuery = <<>>
  /\ selectedYear = AllYears
  /\ sortType = "created-desc"
  /\ expandedId = None
  /\ loading = FALSE
  /\ search = None

(* ------------------------------ startup -------------------------------- *)

Init ==
  /\ variant \in {"share", "file"}
  /\ storage \in InitialStorage
  /\ shows = (IF variant = "share" THEN ShowsInitializer(storage) ELSE <<>>)
  /\ sharedData = None
  /\ isDataLoaded = FALSE
  /\ load = "mount"
  /\ pendingFile = None
  /\ isModalOpen = FALSE
  /\ editingShow = None
  /\ formData = EmptyForm
  /\ clipboard = None
  /\ exportFile = None
  /\ ExtIdle

\* a startup that keeps the payload and goes on to the static file all the same
StartupShareThenLoad(initial, saved, dataParam) ==
  LET decoded == IF Truthy(dataParam) THEN DecodeParam(dataParam[1]) ELSE ParseFail
  IN [shows |-> initial,
      sharedData |-> IF decoded.ok /\ decoded.isArray THEN Some(decoded.val) ELSE None,
      load |-> "fetching"]

\* App.tsx loadInitialData up to its first await, run on the collection the
\* initializer gave, with saved what localStorage holds and dataParam what
\* URLSearchParams.get('data') returns: the collection, the payload and where
\* the function stands after it
StartupShare(initial, saved, dataParam) ==
  LET decoded == IF Truthy(dataParam) THEN DecodeParam(dataParam[1]) ELSE ParseFail
      parsed == ParseSaved(saved)
  IN IF decoded.ok /\ decoded.isArray
     THEN [shows |-> initial, sharedData |-> Some(decoded.val), load |-> "done"]
     ELSE IF Truthy(saved) /\ ~parsed.ok
     THEN \* JSON.parse(saved) throws outside any try: the promise is rejected
          [shows |-> initial, sharedData |-> None, load |-> "failed"]
     ELSE IF Truthy(saved) /\ parsed.isArray /\ Len(parsed.val) > 0
     THEN [shows |-> parsed.val, sharedData |-> None, load |-> "done"]
     ELSE [shows |-> initial, sharedData |-> None, load |-> "fetching"]

\* App.tsx: the first effects after mounting, loadInitialData up to its first
\* await and the persist effect
MountShare(dataParam) ==
  LET out == StartupShare(shows, storage, dataParam)
  IN /\ variant = "share"
     /\ load = "mount"
     /\ shows' = out.shows
     /\ sharedData' = out.sharedData
     /\ load' = out.load
     /\ storage' = PersistEffect(variant, out.shows, isDataLoaded, storage)
     /\ UNCHANGED <<variant, isDataLoaded, pendingFile, isModalOpen, editingShow, formData,
                    clipboard, exportFile, extVars>>

\* part_003, the first effects after mounting: initializeData up to its first
\* await and the persist effect, which sees the state of the first render;
\* then, when the state was set, the persist effect of the next render
MountFile ==
  LET saved == ParseSaved(storage)
      first == PersistEffect(variant, shows, isDataLoaded, storage)
  IN /\ variant = "file"
     /\ load = "mount"
     /\ IF Truthy(storage) /\ saved.ok
        THEN /\ shows' = saved.val
             /\ isDataLoaded' = TRUE
             /\ load' = "done"
             /\ storage' = PersistEffect(variant, saved.val, TRUE, first)
        ELSE /\ load' = "fetching"
             /\ storage' = first
             /\ UNCHANGED <<shows, isDataLoaded>>
     /\ UNCHANGED <<variant, sharedData, pendingFile, isModalOpen, editingShow, formData,
                    clipboard, exportFile, extVars>>

\* response.ok && await response.json(): the parsed body, ParseFail otherwise
ResponseJson(r) == IF r.status = "ok" THEN JsonParse(r.body) ELSE ParseFail

\* App.tsx loadInitialData: the collection set once fetch('data.json') settled as r
FetchedShare(r) ==
  LET json == ResponseJson(r)
  IN IF json.ok /\ json.isArray THEN json.val ELSE DEFAULT_SHOWS

\* part_003 initializeData: the collection set once fetch('./shows.json') settled as r
FetchedFile(r) ==
  LET json == ResponseJson(r)
  IN IF json.ok THEN json.val ELSE DEFAULT_SHOWS

\* App.tsx loadInitialData after await fetch('data.json') settled as r, then the
\* persist effect
FetchResolveShare(r) ==
  /\ variant = "share"
  /\ load = "fetching"
  /\ shows' = FetchedShare(r)
  /\ storage' = PersistEffect(variant, FetchedShare(r), isDataLoaded, storage)
  /\ load' = "done"
  /\ UNCHANGED <<variant, sharedData, isDataLoaded, pendingFile, isModalOpen, editingShow,
                 formData, clipboard, exportFile, extVars>>

\* part_003 initializeData after await fetch('./shows.json') settled as r, then
\* the persist effect.  setShows(data) takes whatever response.json() returns; a
\* body that is JSON but no array leaves the component unable to render and is
\* left out.
FetchResolveFile(r) ==
  /\ variant = "file"
  /\ load = "fetching"
  /\ ~(ResponseJson(r).ok /\ ~ResponseJson(r).isArray)
  /\ shows' = FetchedFile(r)
  /\ isDataLoaded' = TRUE
  /\ storage' = PersistEffect(variant, FetchedFile(r), TRUE, storage)
  /\ load' = "done"
  /\ UNCHANGED <<variant, sharedData, pendingFile, isModalOpen, editingShow, formData,
                 clipboard, exportFile, extVars>>

(* --------------------------- user actions ------------------------------ *)

\* the component has rendered its interface: App.tsx renders at once, part_003
\* shows the loading screen until isDataLoaded, part_005 while isLoading
UIReady ==
  /\ load # "mount"
  /\ variant \in {"file", "sync"} => isDataLoaded
  /\ variant = "remote" => ~isLoading

\* the table and the header can be clicked: the modal covers them when open
MainUI == UIReady /\ ~isModalOpen

\* what the title field and the rating controls are given
TitleInputs == {Ch.letterA}
\* ShowModal.tsx: the range slider (min 1, max 5) and the buttons 1..5
SliderInputs == {50}
\* part_001: parseFloat of what is typed in the number field ('' gives NaN)
TypedInputs == {NaN}

\* the "Add Season" button, then the form's reset effect
OpenAdd ==
  /\ MainUI
  /\ editingShow' = None
  /\ isModalOpen' = TRUE
  /\ formData' = ResetForm(None)
  /\ UNCHANGED <<variant, shows, storage, sharedData, isDataLoaded, load, pendingFile, clipboard, exportFile, extVars>>

\* handleEdit(show), then the form's reset effect
HandleEdit(i) ==
  /\ MainUI
  /\ editingShow' = Some(shows[i])
  /\ isModalOpen' = TRUE
  /\ formData' = ResetForm(Some(shows[i]))
  /\ UNCHANGED <<variant, shows, storage, sharedData, isDataLoaded, load, pendingFile, clipboard, exportFile, extVars>>

\* onClose: setIsModalOpen(false), then the form's reset effect
CloseModal ==
  /\ isModalOpen
  /\ isModalOpen' = FALSE
  /\ formData' = ResetForm(editingShow)
  /\ UNCHANGED <<variant, shows, storage, sharedData, isDataLoaded, load, pendingFile, editingShow, clipboard, exportFile, extVars>>

\* the title field's onChange
ChangeTitle(t) ==
  /\ isModalOpen
  /\ formData' = [formData EXCEPT !.title = t]
  /\ UNCHANGED <<variant, shows, storage, sharedData, isDataLoaded, load, pendingFile, isModalOpen, editingShow, clipboard, exportFile, extVars>>

\* the rating control's onChange: setFormData({...formData, userRating: v})
ChangeRating(v) ==
  /\ isModalOpen
  /\ v \in (IF variant = "file" THEN TypedInputs ELSE SliderInputs)
  /\ formData' = [formData EXCEPT !.userRating = v]
  /\ UNCHANGED <<variant, shows, storage, sharedData, isDataLoaded, load, pendingFile, isModalOpen, editingShow, clipboard, exportFile, extVars>>

\* the identifiers some record carries, in memory or in a stored or exported text
IdsOfText(opt) == IF opt # None /\ JsonParse(opt[1]).ok THEN IdSet(JsonParse(opt[1]).val) ELSE {}
UsedIds == IdSet(shows) \cup IdsOfText(storage)

\* crypto.randomUUID(): an identifier no record carries
RandomUUID == CHOOSE i \in 1..4 : i \notin UsedIds /\ \A j \in 1..(i - 1) : j \in UsedIds

RECURSIVE ReplaceById(_, _, _)
\* prev.map(s => s.id === id ? newShow : s)
ReplaceById(prev, id, newShow) ==
  IF prev = <<>> THEN <<>>
  ELSE <<IF Head(prev).id = id THEN newShow ELSE Head(prev)>> \o ReplaceById(Tail(prev), id, newShow)

\* handleSaveShow(newShow): the collection after it
SavedShows(prev, editing, newShow) ==
  IF editing # None THEN ReplaceById(prev, editing[1].id, newShow) ELSE <<newShow>> \o prev

\* ShowModal.handleSave and App.handleSaveShow, then the persist effect and the
\* form's reset effect
HandleSave ==
  LET newShow == FinalShow(formData, RandomUUID)
      list == SavedShows(shows, editingShow, newShow)
  IN /\ isModalOpen
     /\ formData.title # NoTitle
     /\ formData.id = NoId => Len(shows) < MaxShows
     /\ shows' = list
     /\ storage' = PersistEffect(variant, list, isDataLoaded, storage)
     /\ isModalOpen' = FALSE
     /\ editingShow' = None
     /\ formData' = ResetForm(None)
     /\ UNCHANGED <<variant, sharedData, isDataLoaded, load, pendingFile,
                    clipboard, exportFile, extVars>>

\* handleDelete(id) with the answer given to window.confirm (a confirmed delete
\* collapses the row when it is the expanded one), then the persist effect
HandleDelete(id, confirmed) ==
  LET list == IF confirmed THEN FilterOutIds(shows, {id}) ELSE shows
  IN /\ MainUI
     /\ id \in IdSet(shows)
     /\ shows' = list
     /\ storage' = (IF confirmed THEN PersistEffect(variant, list, isDataLoaded, storage)
                    ELSE storage)
     /\ expandedId' = (IF confirmed /\ expandedId = Some(id)
                       THEN None ELSE expandedId)
     /\ UNCHANGED <<variant, sharedData, isDataLoaded, load, pendingFile,
                    isModalOpen, editingShow, formData, clipboard, exportFile, remoteVars,
                    syncVars, searchQuery, selectedYear, sortType, modalVars>>

(* ------------------------------- import -------------------------------- *)

\* a merge that keeps the existing record and drops the incoming one
ImportMergeKeepingExisting(prev, content) == FilterOutIds(content, IdSet(prev)) \o prev

\* a merge that puts the incoming list behind the remaining existing records
ImportMergeAppending(prev, content) == FilterOutIds(prev, IdSet(content)) \o content

\* [...content, ...prev.filter(p => !content.find(c => c.id === p.id))]
ImportMerge(prev, content) == content \o FilterOutIds(prev, IdSet(content))

\* a merge that does not wait for the answer
MergeWhateverAnswer(confirmed, prev, content) == ImportMerge(prev, content)

\* if (confirm(...)) setShows(prev => merge): the collection after the dialog
MergeIfConfirmed(confirmed, prev, content) ==
  IF confirmed THEN ImportMerge(prev, content) ELSE prev

\* the files the user may pick, as bytes: exported lists, a text that is not
\* JSON, a JSON text that is no array
PickableFiles ==
  {Utf8Encode(StringifyPretty(l)) : l \in IncomingLists} \cup {Garbage, NonArrayText}

\* FileReader.readAsText(file): the bytes decoded as UTF-8
ReadAsText(bytes) == IF Utf8Decode(bytes).ok THEN Utf8Decode(bytes).val ELSE Garbage

\* the files among them that JSON.parse accepts
ParseableFiles == {f \in PickableFiles : JsonParse(ReadAsText(f)).ok}

\* part_003 importData: reader.readAsText(file); at most MaxAlerts files that
\* are not JSON are picked
ImportData(file) ==
  /\ variant = "file"
  /\ MainUI
  /\ pendingFile = None
  /\ ~JsonParse(ReadAsText(file)).ok => alerts < MaxAlerts
  /\ pendingFile' = Some(ReadAsText(file))
  /\ UNCHANGED <<variant, shows, storage, sharedData, isDataLoaded, load, isModalOpen, editingShow, formData, clipboard, exportFile, extVars>>

\* part_003 importData, reader.onload with the answer given to confirm, then
\* the persist effect; a text JSON.parse throws on raises alert('Invalid JSON file.')
ReaderOnload(confirmed) ==
  LET content == JsonParse(pendingFile[1])
      merges == content.ok /\ content.isArray /\ confirmed
      list == IF content.ok /\ content.isArray
                THEN MergeIfConfirmed(confirmed, shows, content.val) ELSE shows
  IN /\ pendingFile # None
     /\ Len(list) <= MaxMerged
     /\ pendingFile' = None
     /\ shows' = list
     /\ storage' = (IF merges THEN PersistEffect(variant, list, isDataLoaded, storage)
                    ELSE storage)
     /\ alerts' = (IF content.ok THEN alerts ELSE alerts + 1)
     /\ UNCHANGED <<variant, sharedData, isDataLoaded, load, isModalOpen, editingShow, formData,
                    clipboard, exportFile, isFirebaseConnected, isLoading, showConfigWarning,
                    cloudCalls, cloudWrites, syncVars, viewVars, modalVars>>

\* App.tsx importSharedData with the answer given to confirm, then the persist effect
ImportSharedData(confirmed) ==
  LET list == MergeIfConfirmed(confirmed, shows, sharedData[1])
  IN /\ variant = "share"
     /\ UIReady
     /\ sharedData # None
     /\ Len(list) <= MaxMerged
     /\ shows' = list
     /\ sharedData' = (IF confirmed THEN None ELSE sharedData)
     /\ storage' = (IF confirmed THEN PersistEffect(variant, list, isDataLoaded, storage)
                    ELSE storage)
     /\ UNCHANGED <<variant, isDataLoaded, load, pendingFile, isModalOpen,
                    editingShow, formData, clipboard, exportFile, extVars>>

\* App.tsx, the banner's Ignore button
IgnoreShared ==
  /\ variant = "share"
  /\ UIReady
  /\ sharedData # None
  /\ sharedData' = None
  /\ UNCHANGED <<variant, shows, storage, isDataLoaded, load, pendingFile, isModalOpen, editingShow, formData, clipboard, exportFile, extVars>>

(* ------------------------- imports into an archive --------------------- *)

\* the archives an import may meet: distinct identifiers, some of them among
\* those of the incoming records
ImportCollections ==
  {l \in SeqsUpTo({Rec(i, Ch.letterA, 40) : i \in ForeignIds \cup {7}}, MaxShows) :
     Cardinality(IdSet(l)) = Len(l)}

\* the page after startup on an archive loaded from localStorage; App.tsx may
\* have been opened on a share link, whose payload is then pending
ImportInit ==
  /\ variant \in {"share", "file"}
  /\ shows \in ImportCollections
  /\ sharedData \in {None} \cup {Some(l) : l \in IncomingLists}
  /\ variant = "file" => sharedData = None
  /\ variant = "share" /\ shows = <<>> => sharedData # None
  /\ storage = (IF variant = "share" /\ shows = <<>> THEN None ELSE Some(Stringify(shows)))
  /\ isDataLoaded = (variant = "file")
  /\ load = "done"
  /\ pendingFile = None
  /\ isModalOpen = FALSE
  /\ editingShow = None
  /\ formData = EmptyForm
  /\ clipboard = None
  /\ exportFile = None
  /\ ExtIdle

ImportNext ==
  \/ \E file \in PickableFiles : ImportData(file)
  \/ \E confirmed \in BOOLEAN : ReaderOnload(confirmed)
  \/ \E confirmed \in BOOLEAN : ImportSharedData(confirmed)
  \/ IgnoreShared
  \/ \E id \in IdSet(shows), confirmed \in BOOLEAN : HandleDelete(id, confirmed)

ImportSpec == ImportInit /\ [][ImportNext]_vars

(* ------------------------ share link and export ------------------------ *)

\* App.tsx handleShare: navigator.clipboard.writeText(shareUrl)
HandleShare ==
  /\ variant = "share"
  /\ MainUI
  /\ clipboard' = Some(ShareParam(shows))
  /\ UNCHANGED <<variant, shows, storage, sharedData, isDataLoaded, load, pendingFile,
                 isModalOpen, editingShow, formData, exportFile, extVars>>

\* exportData: the file the browser downloads from the data: URL, UTF-8 bytes of
\* JSON.stringify(shows) in App.tsx and of JSON.stringify(shows, null, 2) in part_003
ExportedBytes(v, list) ==
  Utf8Encode(IF v = "share" THEN Stringify(list) ELSE StringifyPretty(list))

ExportData ==
  /\ MainUI
  /\ exportFile' = Some(ExportedBytes(variant, shows))
  /\ UNCHANGED <<variant, shows, storage, sharedData, isDataLoaded, load, pendingFile,
                 isModalOpen, editingShow, formData, clipboard, extVars>>

\* the copied link is opened: App.tsx mounts anew on what localStorage holds,
\* runs the useState initializers, loadInitialData up to its first await and
\* the persist effect
OpenLink ==
  LET out == StartupShare(ShowsInitializer(storage), storage,
                          Some(SearchParamGet(clipboard[1])))
  IN /\ variant = "share"
     /\ clipboard # None
     /\ shows' = out.shows
     /\ sharedData' = out.sharedData
     /\ load' = out.load
     /\ storage' = PersistEffect(variant, out.shows, FALSE, storage)
     /\ isModalOpen' = FALSE
     /\ editingShow' = None
     /\ formData' = EmptyForm
     /\ UNCHANGED <<variant, isDataLoaded, pendingFile, clipboard, exportFile, extVars>>

\* titles whose bytes bring every kind of base64 symbol and of UTF-8 sequence
\* into a share link
TransferTitles == {Ch.letterA, Ch.greater, Ch.question, Ch.eacute}

\* the records of the archives shared from App.tsx and exported from part_003
TransferRecs(v) ==
  IF v = "share"
  THEN {Rec(5, t, 40) : t \in TransferTitles} \cup {Rec(6, Ch.letterA, 40)}
  ELSE {Rec(5, t, 40) : t \in {Ch.letterA, Ch.eacute}} \cup {Rec(i, Ch.letterA, 40) : i \in {6, 7}}

\* the collections an archive in use may hold: distinct identifiers
TransferCollections(v) ==
  {l \in SeqsUpTo(TransferRecs(v), MaxShows) : Cardinality(IdSet(l)) = Len(l)}

\* the page after startup, with an archive loaded from localStorage
TransferInit ==
  /\ variant \in {"share", "file"}
  /\ shows \in TransferCollections(variant)
  /\ variant = "share" => shows # <<>>
  /\ storage = Some(Stringify(shows))
  /\ sharedData = None
  /\ isDataLoaded = (variant = "file")
  /\ load = "done"
  /\ pendingFile = None
  /\ isModalOpen = FALSE
  /\ editingShow = None
  /\ formData = EmptyForm
  /\ clipboard = None
  /\ exportFile = None
  /\ ExtIdle

TransferNext ==
  \/ HandleShare
  \/ OpenLink
  \/ ExportData
  \/ \E id \in IdSet(shows), confirmed \in BOOLEAN : HandleDelete(id, confirmed)
  \/ \E file \in {exportFile[i] : i \in 1..Len(exportFile)} : ImportData(file)
  \/ \E confirmed \in BOOLEAN : ReaderOnload(confirmed)
  \/ \E confirmed \in BOOLEAN : ImportSharedData(confirmed)
  \/ IgnoreShared

TransferSpec == TransferInit /\ [][TransferNext]_vars

(* --------------------------- specification ----------------------------- *)

Next ==
  \/ \E dataParam \in InitialParams : MountShare(dataParam)
  \/ MountFile
  \/ \E r \in FetchOutcomes : FetchResolveShare(r)
  \/ \E r \in FetchOutcomes : FetchResolveFile(r)
  \/ OpenAdd
  \/ \E i \in 1..Len(shows) : HandleEdit(i)
  \/ CloseModal
  \/ \E t \in TitleInputs : ChangeTitle(t)
  \/ \E v \in SliderInputs \cup TypedInputs : ChangeRating(v)
  \/ HandleSave
  \/ \E id \in IdSet(shows), confirmed \in BOOLEAN : HandleDelete(id, confirmed)
  \/ \E file \in ParseableFiles : ImportData(file)
  \/ \E confirmed \in BOOLEAN : ReaderOnload(confirmed)
  \/ \E confirmed \in BOOLEAN : ImportSharedData(confirmed)
  \/ IgnoreShared

Spec == Init /\ [][Next]_vars

(* ---------------------- remote-document variant ------------------------ *)

\* the documents of the 'shows' collection a snapshot may carry: the data of a
\* document holds an id field of its own, which may differ from the document's
CloudDocs ==
  {[docId |-> p[1], data |-> Rec(p[2], Ch.letterA, 40)] :
     p \in {q \in ForeignIds \X (ForeignIds \cup {9}) : q[2] \in {q[1], 9}}}

\* the snapshots the service may deliver: a collection has one document per id
CloudSnapshots ==
  {d \in SeqsUpTo(CloudDocs, MaxShows) :
     \A i, j \in 1..Len(d) : d[i].docId = d[j].docId => i = j}

\* a snapshot added behind what the page holds
SnapshotAppended(docs) ==
  shows \o [i \in 1..Len(docs) |-> [docs[i].data EXCEPT !.id = docs[i].docId]]

\* subscribeToShows: snapshot.docs.map(doc => ({ ...doc.data(), id: doc.id }))
SnapshotShows(docs) == [i \in 1..Len(docs) |-> [docs[i].data EXCEPT !.id = docs[i].docId]]

\* a page that never leaves the loading screen by itself
LoadingUntilSnapshot(connected) == TRUE

\* part_005, the subscription effect: isLoading after it ran
LoadingAfterMount(connected) == connected

\* part_005 as it is constructed: db is null when the configuration has no
\* projectId or initializeApp throws
RemoteInit ==
  /\ variant = "remote"
  /\ isFirebaseConnected \in BOOLEAN
  /\ shows = <<>>
  /\ isLoading = TRUE
  /\ showConfigWarning = ~isFirebaseConnected
  /\ load = "mount"
  /\ storage = None
  /\ sharedData = None
  /\ isDataLoaded = FALSE
  /\ pendingFile = None
  /\ isModalOpen = FALSE
  /\ editingShow = None
  /\ formData = EmptyForm
  /\ clipboard = None
  /\ exportFile = None
  /\ cloudCalls = <<>>
  /\ cloudWrites = 0
  /\ alerts = 0
  /\ ghConfigured = FALSE
  /\ isSettingsOpen = FALSE
  /\ syncStatus = "idle"
  /\ syncCalls = <<>>
  /\ ghRequests = <<>>
  /\ remoteSha = 0
  /\ idleTimers = 0
  /\ searchQuery = <<>>
  /\ selectedYear = AllYears
  /\ sortType = "created-desc"
  /\ expandedId = None
  /\ loading = FALSE
  /\ search = None

\* part_005, the effect that subscribes: without a connection it only leaves
\* the loading state, subscribeToShows is not called
MountRemote ==
  /\ variant = "remote"
  /\ load = "mount"
  /\ load' = "done"
  /\ isLoading' = LoadingAfterMount(isFirebaseConnected)
  /\ UNCHANGED <<variant, shows, storage, sharedData, isDataLoaded, pendingFile, isModalOpen,
                 editingShow, formData, clipboard, exportFile, isFirebaseConnected,
                 showConfigWarning, cloudCalls, cloudWrites, alerts, syncVars, viewVars, modalVars>>

\* the callback handed to subscribeToShows, called by onSnapshot
Snapshot(docs) ==
  /\ variant = "remote"
  /\ load = "done"
  /\ isFirebaseConnected
  /\ shows' = SnapshotShows(docs)
  /\ isLoading' = FALSE
  /\ UNCHANGED <<variant, storage, sharedData, isDataLoaded, load, pendingFile, isModalOpen,
                 editingShow, formData, clipboard, exportFile, isFirebaseConnected,
                 showConfigWarning, cloudCalls, cloudWrites, alerts, syncVars, viewVars, modalVars>>

\* onSnapshot's error callback: console.error only; the listener is ended and
\* delivers nothing more
SnapshotError ==
  /\ variant = "remote"
  /\ load = "done"
  /\ isFirebaseConnected
  /\ load' = "failed"
  /\ UNCHANGED <<variant, shows, storage, sharedData, isDataLoaded, pendingFile, isModalOpen,
                 editingShow, formData, clipboard, exportFile, remoteVars, syncVars,
                 viewVars, modalVars>>

\* part_005, the warning's dismiss button
DismissWarning ==
  /\ variant = "remote"
  /\ UIReady
  /\ showConfigWarning
  /\ showConfigWarning' = FALSE
  /\ UNCHANGED <<variant, shows, storage, sharedData, isDataLoaded, load, pendingFile,
                 isModalOpen, editingShow, formData, clipboard, exportFile,
                 isFirebaseConnected, isLoading, cloudCalls, cloudWrites, alerts, syncVars,
                 viewVars, modalVars>>

\* part_005, the modal's onClose: setIsModalOpen(false); setEditingShow(null),
\* then the form's reset effect
CloseModalRemote ==
  /\ variant = "remote"
  /\ isModalOpen
  /\ isModalOpen' = FALSE
  /\ editingShow' = None
  /\ formData' = ResetForm(None)
  /\ UNCHANGED <<variant, shows, storage, sharedData, isDataLoaded, load, pendingFile,
                 clipboard, exportFile, extVars>>

\* ShowModal.handleSave and part_005 handleSaveShow up to its await: without a
\* connection an alert and nothing else, otherwise saveShowToCloud issues setDoc
SaveRemote ==
  LET newShow == FinalShow(formData, RandomUUID)
  IN /\ variant = "remote"
     /\ isModalOpen
     /\ formData.title # NoTitle
     /\ IF isFirebaseConnected
          THEN /\ cloudWrites < MaxWrites
               /\ cloudCalls' = Append(cloudCalls, [op |-> "save", show |-> newShow])
               /\ cloudWrites' = cloudWrites + 1
               /\ alerts' = alerts
          ELSE /\ alerts < MaxAlerts
               /\ alerts' = alerts + 1
               /\ UNCHANGED <<cloudCalls, cloudWrites>>
     /\ UNCHANGED <<variant, shows, storage, sharedData, isDataLoaded, load, pendingFile,
                    isModalOpen, editingShow, formData, clipboard, exportFile,
                    isFirebaseConnected, isLoading, showConfigWarning, syncVars, viewVars, modalVars>>

\* part_005 handleDelete(id) up to its await, with the answer given to confirm
DeleteRemote(id, confirmed) ==
  /\ variant = "remote"
  /\ MainUI
  /\ id \in IdSet(shows)
  /\ IF ~isFirebaseConnected
       THEN /\ alerts < MaxAlerts
            /\ alerts' = alerts + 1
            /\ UNCHANGED <<cloudCalls, cloudWrites>>
       ELSE IF confirmed
         THEN /\ cloudWrites < MaxWrites
              /\ cloudCalls' = Append(cloudCalls, [op |-> "delete", show |-> Rec(id, NoTitle, 0),
                                                  expanded |-> expandedId])
              /\ cloudWrites' = cloudWrites + 1
              /\ alerts' = alerts
         ELSE UNCHANGED <<cloudCalls, cloudWrites, alerts>>
  /\ UNCHANGED <<variant, shows, storage, sharedData, isDataLoaded, load, pendingFile,
                 isModalOpen, editingShow, formData, clipboard, exportFile,
                 isFirebaseConnected, isLoading, showConfigWarning, syncVars, viewVars, modalVars>>

\* a modal that is closed whatever became of the write
ModalClosedAfterSave(ok, open) == FALSE

\* part_005 handleSaveShow: isModalOpen after the awaited write has settled
ModalAfterSave(ok, open) == IF ok THEN FALSE ELSE open

\* the awaited call at position n taken out, as it has ended
WithoutCall(calls, n) == SubSeq(calls, 1, n - 1) \o SubSeq(calls, n + 1, Len(calls))

\* saveShowToCloud / deleteShowFromCloud settle: setDoc / deleteDoc resolved
\* (ok) or threw, the service rethrows and the handler's catch raises an alert;
\* after a delete, the row is collapsed when it was the expanded one in the
\* render the handler was created in
CloudSettles(n, ok) ==
  LET call == cloudCalls[n]
      closes == call.op = "save" /\ ok
  IN /\ variant = "remote"
     /\ n \in 1..Len(cloudCalls)
     /\ ~ok => alerts < MaxAlerts
     /\ cloudCalls' = WithoutCall(cloudCalls, n)
     /\ alerts' = (IF ok THEN alerts ELSE alerts + 1)
     /\ isModalOpen' = (IF call.op = "save" THEN ModalAfterSave(ok, isModalOpen)
                        ELSE isModalOpen)
     /\ editingShow' = (IF closes THEN None ELSE editingShow)
     /\ formData' = (IF closes THEN ResetForm(None) ELSE formData)
     /\ expandedId' = (IF call.op = "delete" /\ ok /\ call.expanded = Some(call.show.id)
                       THEN None ELSE expandedId)
     /\ UNCHANGED <<variant, shows, storage, sharedData, isDataLoaded, load, pendingFile,
                    clipboard, exportFile, isFirebaseConnected, isLoading,
                    showConfigWarning, cloudWrites, syncVars, searchQuery, selectedYear,
                    sortType, modalVars>>

RemoteNext ==
  \/ MountRemote
  \/ \E docs \in CloudSnapshots : Snapshot(docs)
  \/ SnapshotError
  \/ DismissWarning
  \/ OpenAdd
  \/ \E i \in 1..Len(shows) : HandleEdit(i)
  \/ CloseModalRemote
  \/ \E t \in TitleInputs : ChangeTitle(t)
  \/ \E v \in SliderInputs : ChangeRating(v)
  \/ SaveRemote
  \/ \E id \in IdSet(shows), confirmed \in BOOLEAN : DeleteRemote(id, confirmed)
  \/ \E n \in 1..Len(cloudCalls), ok \in BOOLEAN : CloudSettles(n, ok)

RemoteSpec == RemoteInit /\ [][RemoteNext]_vars

(* ------------------------- commit-based sync -------------------------- *)

\* no revision marker: the remote file does not exist, sha is ''
NoSha == 0

\* the archives the page may hold when the sync button is used
SyncCollections ==
  {l \in SeqsUpTo({Rec(5, Ch.letterA, 40), Rec(6, Ch.eacute, 50)}, MaxShows) :
     Cardinality(IdSet(l)) = Len(l)}

\* part_004 after initializeData on an archive found in localStorage; the
\* token, owner and repository come from localStorage and may be missing
SyncInit ==
  /\ variant = "sync"
  /\ shows \in SyncCollections
  /\ storage = Some(Stringify(shows))
  /\ isDataLoaded = TRUE
  /\ load = "done"
  /\ sharedData = None
  /\ pendingFile = None
  /\ isModalOpen = FALSE
  /\ editingShow = None
  /\ formData = EmptyForm
  /\ clipboard = None
  /\ exportFile = None
  /\ isFirebaseConnected = FALSE
  /\ isLoading = FALSE
  /\ showConfigWarning = FALSE
  /\ cloudCalls = <<>>
  /\ cloudWrites = 0
  /\ alerts = 0
  /\ ghConfigured \in BOOLEAN
  /\ isSettingsOpen = FALSE
  /\ syncStatus = "idle"
  /\ syncCalls = <<>>
  /\ ghRequests = <<>>
  /\ remoteSha \in {NoSha, 1}
  /\ idleTimers = 0
  /\ searchQuery = <<>>
  /\ selectedYear = AllYears
  /\ sortType = "created-desc"
  /\ expandedId = None
  /\ loading = FALSE
  /\ search = None

\* the header's settings button
OpenSettings ==
  /\ variant = "sync"
  /\ MainUI
  /\ ~isSettingsOpen
  /\ isSettingsOpen' = TRUE
  /\ UNCHANGED <<variant, shows, storage, sharedData, isDataLoaded, load, pendingFile,
                 isModalOpen, editingShow, formData, clipboard, exportFile, remoteVars,
                 ghConfigured, syncStatus, syncCalls, ghRequests, remoteSha, idleTimers,
                 viewVars, modalVars>>

\* saveGhConfig from a field of the settings dialog: the three fields are all
\* filled (complete) or not
SaveGhConfig(complete) ==
  /\ variant = "sync"
  /\ isSettingsOpen
  /\ ghConfigured' = complete
  /\ UNCHANGED <<variant, shows, storage, sharedData, isDataLoaded, load, pendingFile,
                 isModalOpen, editingShow, formData, clipboard, exportFile, remoteVars,
                 isSettingsOpen, syncStatus, syncCalls, ghRequests, remoteSha, idleTimers,
                 viewVars, modalVars>>

\* the settings dialog's close and "Save Config" buttons
CloseSettings ==
  /\ variant = "sync"
  /\ isSettingsOpen
  /\ isSettingsOpen' = FALSE
  /\ UNCHANGED <<variant, shows, storage, sharedData, isDataLoaded, load, pendingFile,
                 isModalOpen, editingShow, formData, clipboard, exportFile, remoteVars,
                 ghConfigured, syncStatus, syncCalls, ghRequests, remoteSha, idleTimers,
                 viewVars, modalVars>>

\* btoa(unescape(encodeURIComponent(JSON.stringify(shows, null, 2))))
SyncContent(list) == Btoa(Utf8Encode(StringifyPretty(list)))

\* a write that never carries a marker
UntaggedPut(sha, list) == [method |-> "PUT", sha |-> NoSha, content |-> SyncContent(list)]

\* the body of the PUT request: { message, content, sha: sha || undefined }
PutRequest(sha, list) == [method |-> "PUT", sha |-> sha, content |-> SyncContent(list)]

GetRequest == [method |-> "GET", sha |-> NoSha, content |-> <<>>]

\* syncToGitHub up to its first await: without token, owner or repo it opens
\* the settings; the button is disabled while syncStatus is 'syncing'. The
\* call keeps the shows of the render it was created in and, once read, the sha
SyncToGitHub ==
  /\ variant = "sync"
  /\ MainUI
  /\ ~isSettingsOpen
  /\ syncStatus # "syncing"
  /\ IF ~ghConfigured
       THEN /\ isSettingsOpen' = TRUE
            /\ UNCHANGED <<syncStatus, syncCalls, ghRequests>>
       ELSE /\ Len(SelectSeq(ghRequests, LAMBDA r : r.method = "GET")) < MaxSyncs
            /\ syncStatus' = "syncing"
            /\ syncCalls' = Append(syncCalls, [pc |-> "get", shows |-> shows, sha |-> NoSha])
            /\ ghRequests' = Append(ghRequests, GetRequest)
            /\ isSettingsOpen' = isSettingsOpen
  /\ UNCHANGED <<variant, shows, storage, sharedData, isDataLoaded, load, pendingFile,
                 isModalOpen, editingShow, formData, clipboard, exportFile, remoteVars,
                 ghConfigured, remoteSha, idleTimers, viewVars, modalVars>>

\* what the read of the file may come to: 'ok' with the file's sha, a response
\* that is not ok (no such file, or refused), or a fetch that throws
GetOutcomes == {"ok", "notok", "throws"}

\* what the write may come to: accepted, a response that is not ok, or a
\* fetch that throws
PutOutcomes == {"ok", "rejected", "throws"}

\* syncToGitHub from the response to the read up to the second await
GetResponds(n, outcome) ==
  LET call == syncCalls[n]
      sha == IF outcome = "ok" THEN remoteSha ELSE NoSha
  IN /\ variant = "sync"
     /\ n \in 1..Len(syncCalls)
     /\ call.pc = "get"
     /\ outcome = "ok" => remoteSha # NoSha
     /\ IF outcome = "throws"
          THEN /\ syncStatus' = "error"
               /\ syncCalls' = WithoutCall(syncCalls, n)
               /\ ghRequests' = ghRequests
          ELSE /\ syncStatus' = syncStatus
               /\ syncCalls' = [syncCalls EXCEPT ![n].pc = "put", ![n].sha = sha]
               /\ ghRequests' = Append(ghRequests, PutRequest(sha, call.shows))
     /\ UNCHANGED <<variant, shows, storage, sharedData, isDataLoaded, load, pendingFile,
                    isModalOpen, editingShow, formData, clipboard, exportFile, remoteVars,
                    ghConfigured, isSettingsOpen, remoteSha, idleTimers, viewVars, modalVars>>

\* a status that shows success whatever the service answered
StatusAlwaysSuccess(outcome) == "success"

\* syncToGitHub: syncStatus after the write was answered
StatusAfterPut(outcome) == IF outcome = "ok" THEN "success" ELSE "error"

\* syncToGitHub from the response to the write to its end. The service accepts
\* a write only when it carries the marker the file has now
PutResponds(n, outcome) ==
  /\ variant = "sync"
  /\ n \in 1..Len(syncCalls)
  /\ syncCalls[n].pc = "put"
  /\ outcome = "ok" => syncCalls[n].sha = remoteSha /\ remoteSha < MaxRevisions
  /\ syncStatus' = StatusAfterPut(outcome)
  /\ syncCalls' = WithoutCall(syncCalls, n)
  /\ remoteSha' = (IF outcome = "ok" THEN remoteSha + 1 ELSE remoteSha)
  /\ idleTimers' = (IF outcome = "ok" THEN idleTimers + 1 ELSE idleTimers)
  /\ UNCHANGED <<variant, shows, storage, sharedData, isDataLoaded, load, pendingFile,
                 isModalOpen, editingShow, formData, clipboard, exportFile, remoteVars,
                 ghConfigured, isSettingsOpen, ghRequests, viewVars, modalVars>>

\* setTimeout(() => setSyncStatus('idle'), 3000) comes due
IdleTimerFires ==
  /\ variant = "sync"
  /\ idleTimers > 0
  /\ idleTimers' = idleTimers - 1
  /\ syncStatus' = "idle"
  /\ UNCHANGED <<variant, shows, storage, sharedData, isDataLoaded, load, pendingFile,
                 isModalOpen, editingShow, formData, clipboard, exportFile, remoteVars,
                 ghConfigured, isSettingsOpen, syncCalls, ghRequests, remoteSha, viewVars, modalVars>>

\* the remote file is committed to from elsewhere
RemoteChanges ==
  /\ variant = "sync"
  /\ remoteSha < MaxRevisions
  /\ remoteSha' = remoteSha + 1
  /\ UNCHANGED <<variant, shows, storage, sharedData, isDataLoaded, load, pendingFile,
                 isModalOpen, editingShow, formData, clipboard, exportFile, remoteVars,
                 ghConfigured, isSettingsOpen, syncStatus, syncCalls, ghRequests, idleTimers,
                 viewVars, modalVars>>

SyncNext ==
  \/ OpenSettings
  \/ \E complete \in BOOLEAN : SaveGhConfig(complete)
  \/ CloseSettings
  \/ SyncToGitHub
  \/ \E n \in 1..Len(syncCalls), outcome \in GetOutcomes : GetResponds(n, outcome)
  \/ \E n \in 1..Len(syncCalls), outcome \in PutOutcomes : PutResponds(n, outcome)
  \/ IdleTimerFires
  \/ RemoteChanges
  \/ \E id \in IdSet(shows), confirmed \in BOOLEAN : HandleDelete(id, confirmed)

SyncSpec == SyncInit /\ [][SyncNext]_vars

(* ------------------------------ list view ------------------------------ *)

\* String.prototype.toLowerCase on the letters A..Z
ToLowerCase(str) == [i \in 1..Len(str) |-> IF str[i] \in 65..90 THEN str[i] + 32 ELSE str[i]]

\* an includes that finds nothing for the empty string
IncludesNonEmpty(str, q) ==
  q # <<>> /\ \E k \in 0..(Len(str) - Len(q)) : SubSeq(str, k + 1, k + Len(q)) = q

\* String.prototype.includes
Includes(str, q) == \E k \in 0..(Len(str) - Len(q)) : SubSeq(str, k + 1, k + Len(q)) = q

\* String.prototype.startsWith
StartsWith(str, prefix) == Len(prefix) <= Len(str) /\ SubSeq(str, 1, Len(prefix)) = prefix

\* the digits of a year: four, or five from the year 10000 on
YearText(y) ==
  (IF y >= 10000 THEN <<Ch.digit0 + (y \div 10000)>> ELSE <<>>) \o
  <<Ch.digit0 + ((y \div 1000) % 10), Ch.digit0 + ((y \div 100) % 10),
    Ch.digit0 + ((y \div 10) % 10), Ch.digit0 + (y % 10)>>

\* a date of a year, 'YYYY-01-10'
DateText(y) == YearText(y) \o <<45, 48, 49, 45, 49, 48>>

\* createdAt is counted in units of which MsPerYear make a year
MsPerYear == 10

\* new Date(createdAt).toISOString().split('T')[0]; the day within the year is
\* not told apart
IsoDate(createdAt) == YearText(1970 + (createdAt \div MsPerYear)) \o <<45, 48, 49, 45, 48, 49>>

\* a || b on optional strings: undefined and '' are falsy
OrElse(opt, other) == IF Truthy(opt) THEN opt[1] ELSE other

\* s.endDate || s.startDate || new Date(s.createdAt).toISOString().split('T')[0]
DateOf(s) == OrElse(s.endDate, OrElse(s.startDate, IsoDate(s.createdAt)))

\* date.split('-')[0]
YearOf(date) == IF \E k \in 1..Len(date) : date[k] = 45
                THEN SubSeq(date, 1, (CHOOSE k \in 1..Len(date) :
                                        date[k] = 45 /\ \A j \in 1..(k - 1) : date[j] # 45) - 1)
                ELSE date

\* availableYears, as a set
AvailableYears(list) == {YearOf(DateOf(list[i])) : i \in 1..Len(list)} \ {<<>>}

\* the search test of filteredShows on the lower-cased query q; the title of a
\* record is one character
MatchesSearch(s, q) ==
  \/ Includes(ToLowerCase(<<s.title>>), q)
  \/ Includes(ToLowerCase(s.network), q)
  \/ Includes(ToLowerCase(s.status), q)
  \/ \E g \in 1..Len(s.genres) : Includes(ToLowerCase(s.genres[g]), q)

\* the predicate handed to shows.filter
Matches(s, q, year) ==
  /\ MatchesSearch(s, q)
  /\ year # AllYears => StartsWith(DateOf(s), year)

RECURSIVE FilterShows(_, _, _)
\* shows.filter(s => ...)
FilterShows(list, q, year) ==
  IF list = <<>> THEN <<>>
  ELSE IF Matches(Head(list), q, year)
         THEN <<Head(list)>> \o FilterShows(Tail(list), q, year)
         ELSE FilterShows(Tail(list), q, year)

RECURSIVE LexCompare(_, _)
\* two sequences of numbers compared element by element: -1, 0 or 1
LexCompare(a, b) ==
  IF a = <<>> /\ b = <<>> THEN 0
  ELSE IF a = <<>> THEN -1
  ELSE IF b = <<>> THEN 1
  ELSE IF Head(a) < Head(b) THEN -1
  ELSE IF Head(a) > Head(b) THEN 1
  ELSE LexCompare(Tail(a), Tail(b))

\* String.prototype.localeCompare on letters, digits and '-': letters are
\* ordered alphabetically whatever their case, and of two strings that differ
\* in case only the one with the lower-case letter comes first
LocaleCompare(a, b) ==
  LET upper(str) == [i \in 1..Len(str) |-> IF str[i] \in 65..90 THEN 1 ELSE 0]
      primary == LexCompare(ToLowerCase(a), ToLowerCase(b))
  IN IF primary # 0 THEN primary ELSE LexCompare(upper(a), upper(b))

\* the comparator handed to result.sort
Compare(sort, a, b) ==
  CASE sort = "rating-desc" -> b.userRating - a.userRating
    [] sort = "rating-asc" -> a.userRating - b.userRating
    [] sort = "title-asc" -> LocaleCompare(<<a.title>>, <<b.title>>)
    [] sort = "title-desc" -> LocaleCompare(<<b.title>>, <<a.title>>)
    [] sort = "season-desc" -> b.seasonNumber - a.seasonNumber
    [] sort = "season-asc" -> a.seasonNumber - b.seasonNumber
    [] sort = "date-desc" -> LocaleCompare(OrElse(b.startDate, <<>>), OrElse(a.startDate, <<>>))
    [] OTHER -> b.createdAt - a.createdAt

RECURSIVE InsertBeforeEqual(_, _, _)
\* an insertion that puts the element in front of those it compares equal to
InsertBeforeEqual(sorted, x, sort) ==
  IF sorted = <<>> THEN <<x>>
  ELSE IF Compare(sort, sorted[Len(sorted)], x) < 0 THEN Append(sorted, x)
       ELSE Append(InsertBeforeEqual(SubSeq(sorted, 1, Len(sorted) - 1), x, sort),
                   sorted[Len(sorted)])

RECURSIVE InsertSorted(_, _, _)
\* Array.prototype.sort is stable: an element is placed behind the elements
\* the comparator does not put after it
InsertSorted(sorted, x, sort) ==
  IF sorted = <<>> THEN <<x>>
  ELSE IF Compare(sort, sorted[Len(sorted)], x) <= 0 THEN Append(sorted, x)
       ELSE Append(InsertSorted(SubSeq(sorted, 1, Len(sorted) - 1), x, sort),
                   sorted[Len(sorted)])

RECURSIVE SortShows(_, _)
\* result.sort((a, b) => ...)
SortShows(list, sort) ==
  IF list = <<>> THEN <<>>
  ELSE InsertSorted(SortShows(SubSeq(list, 1, Len(list) - 1), sort), list[Len(list)], sort)

\* filteredShows, the memo on [shows, searchQuery, selectedYear, sortType]
filteredShows ==
  SortShows(FilterShows(shows, ToLowerCase(searchQuery), selectedYear), sortType)

\* a memo whose sort is applied to the collection itself
MemoSortingShows(list, q, year, sort) ==
  [shows |-> SortShows(list, sort),
   result |-> SortShows(FilterShows(list, q, year), sort)]

\* the arrays after the memo has run: shows.filter builds a new array, result,
\* and result.sort reorders that array in place
MemoArrays(list, q, year, sort) ==
  LET result == FilterShows(list, q, year)
  IN [shows |-> list, result |-> SortShows(result, sort)]

\* a record with the fields the list view reads
Season(i, t, r, n, net, st, g, sd, ed, c) ==
  [id |-> i, title |-> t, userRating |-> r, seasonNumber |-> n, network |-> net,
   status |-> st, genres |-> g, startDate |-> sd, endDate |-> ed, createdAt |-> c]

\* 'HBO', 'FX', 'Watching', 'Dropped', 'Drama', 'Satire' as code points
Text == [HBO |-> <<72, 66, 79>>,
         FX |-> <<70, 88>>,
         Watching |-> <<87, 97, 116, 99, 104, 105, 110, 103>>,
         Dropped |-> <<68, 114, 111, 112, 112, 101, 100>>,
         Drama |-> <<68, 114, 97, 109, 97>>,
         Satire |-> <<83, 97, 116, 105, 114, 101>>]

\* the records the listed collections are made of: some share a rating, a
\* title up to case, a season number, a start date or have none; one end date
\* was typed into the date field with a five-digit year
ListedRecs ==
  {Season(5, Ch.letterA, 40, 1, Text.HBO, Text.Watching, <<Text.Drama>>,
          Some(DateText(2024)), None, 540),
   Season(6, 97, 40, 2, Text.FX, Text.Dropped, <<Text.Drama, Text.Satire>>,
          None, Some(DateText(20245)), 545),
   Season(7, Ch.letterS, 50, 1, Text.HBO, Text.Dropped, <<>>,
          Some(DateText(2024)), Some(DateText(2025)), 545),
   Season(8, Ch.letterA, 0, 3, Text.FX, Text.Watching, <<Text.Satire>>,
          None, None, 551)}

ListedCollections ==
  {l \in SeqsUpTo(ListedRecs, MaxListed) : l # <<>> /\ Cardinality(IdSet(l)) = Len(l)}

\* what is typed into the search field: nothing, 'A', 'hb', 'Dr'
SearchInputs == {<<>>, <<Ch.letterA>>, <<104, 98>>, <<68, 114>>}

\* the sort types, part_003's select offers each
SortTypes == {"rating-desc", "rating-asc", "title-asc", "title-desc", "season-desc",
              "season-asc", "date-desc", "created-desc"}

\* the page after startup on an archive loaded from localStorage
ViewInit ==
  /\ variant \in {"share", "file"}
  /\ shows \in ListedCollections
  /\ storage = Some(Stringify(shows))
  /\ sharedData = None
  /\ isDataLoaded = (variant = "file")
  /\ load = "done"
  /\ pendingFile = None
  /\ isModalOpen = FALSE
  /\ editingShow = None
  /\ formData = EmptyForm
  /\ clipboard = None
  /\ exportFile = None
  /\ ExtIdle

\* the search field's onChange, then the memo of filteredShows
SetSearchQuery(q) ==
  /\ MainUI
  /\ searchQuery' = q
  /\ UNCHANGED <<variant, storage, sharedData, isDataLoaded, load, pendingFile,
                 isModalOpen, editingShow, formData, clipboard, exportFile, remoteVars,
                 syncVars, selectedYear, sortType, expandedId, modalVars>>
  /\ shows' = MemoArrays(shows, ToLowerCase(searchQuery'), selectedYear', sortType').shows

\* the 'All Time' button and the button of an available year
SetSelectedYear(year) ==
  /\ MainUI
  /\ year \in {AllYears} \cup AvailableYears(shows)
  /\ selectedYear' = year
  /\ UNCHANGED <<variant, storage, sharedData, isDataLoaded, load, pendingFile,
                 isModalOpen, editingShow, formData, clipboard, exportFile, remoteVars,
                 syncVars, searchQuery, sortType, expandedId, modalVars>>
  /\ shows' = MemoArrays(shows, ToLowerCase(searchQuery'), selectedYear', sortType').shows

\* handleColumnSort(field), a click on a column header
HandleColumnSort(field) ==
  /\ MainUI
  /\ sortType' = (CASE field = "rating" ->
                         (IF sortType = "rating-desc" THEN "rating-asc" ELSE "rating-desc")
                    [] field = "title" ->
                         (IF sortType = "title-asc" THEN "title-desc" ELSE "title-asc")
                    [] field = "season" ->
                         (IF sortType = "season-desc" THEN "season-asc" ELSE "season-desc"))
  /\ UNCHANGED <<variant, storage, sharedData, isDataLoaded, load, pendingFile,
                 isModalOpen, editingShow, formData, clipboard, exportFile, remoteVars,
                 syncVars, searchQuery, selectedYear, expandedId, modalVars>>
  /\ shows' = MemoArrays(shows, ToLowerCase(searchQuery'), selectedYear', sortType').shows

\* part_003, the sort select's onChange
SelectSort(sort) ==
  /\ variant = "file"
  /\ MainUI
  /\ sortType' = sort
  /\ UNCHANGED <<variant, storage, sharedData, isDataLoaded, load, pendingFile,
                 isModalOpen, editingShow, formData, clipboard, exportFile, remoteVars,
                 syncVars, searchQuery, selectedYear, expandedId, modalVars>>
  /\ shows' = MemoArrays(shows, ToLowerCase(searchQuery'), selectedYear', sortType').shows

ViewNext ==
  \/ \E q \in SearchInputs : SetSearchQuery(q)
  \/ \E year \in {AllYears} \cup AvailableYears(shows) : SetSelectedYear(year)
  \/ \E field \in {"rating", "title", "season"} : HandleColumnSort(field)
  \/ \E sort \in SortTypes : SelectSort(sort)
  \/ \E id \in IdSet(shows), confirmed \in BOOLEAN : HandleDelete(id, confirmed)

ViewSpec == ViewInit /\ [][ViewNext]_vars

(* ------------------------------ claims --------------------------------- *)

\* the list a file import is about to merge, once the reader has read an array
FileContent == JsonParse(pendingFile[1]).val

\* reader.onload merges: the text read is a JSON array and the user confirms
FileImport ==
  /\ pendingFile # None
  /\ JsonParse(pendingFile[1]).ok
  /\ JsonParse(pendingFile[1]).isArray
  /\ ReaderOnload(TRUE)

\* importSharedData merges: a payload is pending and the user confirms
SharedImport == sharedData # None /\ ImportSharedData(TRUE)

\* the records of list whose identifier is outside ids, in order
Without(list, ids) == LET Kept(p) == p.id \notin ids IN SelectSeq(list, Kept)

C2_Case(content) ==
  /\ Len(content) = 2
  /\ content[1].id # content[2].id
  /\ Cardinality(IdSet(content) \cap IdSet(shows)) = 1

\* the record of content whose identifier the collection does not hold
C2_New(content) == IF content[1].id \in IdSet(shows) THEN content[2] ELSE content[1]

C2_Replaced(content) == Cardinality({i \in 1..Len(shows) : shows[i].id \in IdSet(content)})

C3_UniqueIds == Cardinality(IdSet(shows)) = Len(shows)

\* a mutation of the collection: a form save, a confirmed delete or a confirmed
\* import that changes it
Mutation ==
  /\ \/ HandleSave
     \/ \E id \in IdSet(shows) : HandleDelete(id, TRUE)
     \/ FileImport
     \/ SharedImport
  /\ shows' # shows

\* C4: after every mutation of the collection (create, edit, confirmed delete,
\* import) the array stored under 'cinetrack_shows' equals the in-memory
\* collection, also after the delete that removes the last record.
C4_StoredEqualsMemory ==
  [][Mutation => /\ storage' # None
                 /\ JsonParse(storage'[1]).ok
                 /\ JsonParse(storage'[1]).val = shows']_vars

\* C5: an identifier in the collection stays there until the user confirms the
\* delete of that identifier; no other step, the completion of the startup load
\* included, removes it.
C5_IdsStay ==
  [][\A id \in IdSet(shows) : id \in IdSet(shows') \/ HandleDelete(id, TRUE)]_vars

\* the first effects after mounting, with no 'data' parameter in the URL
MountWithoutPayload == MountShare(None) \/ MountFile

\* the collection the static file or, failing it, the default list provides
FromFileOrDefaults(r) ==
  IF r.status = "ok" /\ JsonParse(r.body).ok /\ JsonParse(r.body).isArray
  THEN JsonParse(r.body).val
  ELSE DEFAULT_SHOWS

\* C6: without a shared payload the collection is taken from local storage when
\* it holds a non-empty list, otherwise from the static file when the fetch
\* yields an array, otherwise from the default list; every failed or empty read
\* falls through to the next source.
C6_SourceOrder ==
  [][/\ MountWithoutPayload =>
          IF ParseSaved(storage).ok /\ ParseSaved(storage).isArray
               /\ Len(ParseSaved(storage).val) > 0
          THEN shows' = ParseSaved(storage).val /\ load' = "done"
          ELSE load' = "fetching"
     /\ \A r \in FetchOutcomes :
          FetchResolveShare(r) \/ FetchResolveFile(r) => shows' = FromFileOrDefaults(r)]_vars

\* C7: a stored value that is not valid JSON is treated as absent: startup goes
\* on to the static file (and from there to the defaults) and is never aborted.
C7_InvalidJsonFallsThrough ==
  [][MountWithoutPayload /\ storage # None /\ ~JsonParse(storage[1]).ok
       => load' = "fetching"]_vars

\* C8: the link handleShare copies, once opened, decodes to a payload equal to
\* the collection it was made from, whichever base64 characters it holds.
C8_ShareRoundTrip ==
  [][OpenLink => \A l \in TransferCollections("share") :
                   clipboard = Some(ShareParam(l)) => sharedData' = Some(l)]_vars

\* the collections a file may have been exported from
ExportableCollections == SeqsUpTo(TransferRecs("file"), MaxShows)

\* C9: the file exportData wrote, imported by importData into an empty
\* collection with the confirmation accepted, gives a collection with the
\* identifiers of the exported one, in the same order.
C9_ExportImport ==
  [][/\ ReaderOnload(TRUE)
     /\ shows = <<>>
     /\ exportFile # None
     /\ pendingFile = Some(ReadAsText(exportFile[1]))
     => \E l \in ExportableCollections :
          exportFile = Some(ExportedBytes("file", l)) /\ IdsOf(shows') = IdsOf(l)]_vars

\* an exported file of two records is being imported into the emptied collection
C9_Reimporting ==
  /\ variant = "file"
  /\ shows = <<>>
  /\ exportFile # None
  /\ pendingFile = Some(ReadAsText(exportFile[1]))
  /\ JsonParse(pendingFile[1]).ok
  /\ Len(JsonParse(pendingFile[1]).val) = 2

\* C10: every record a form save writes to the collection has a userRating
\* within [1.0, 5.0], whatever was entered in the form before.
C10_RatingInRange ==
  [][HandleSave => \A i \in 1..Len(shows') :
                     (\A j \in 1..Len(shows) : shows[j] # shows'[i])
                       => shows'[i].userRating \in 10..50]_vars

\* the write at position n of cloudCalls is refused
FailedWrite(n) == n \in 1..Len(cloudCalls) /\ CloudSettles(n, FALSE)

\* C11: in the remote-document variant, when the awaited saveShowToCloud or
\* deleteShowFromCloud throws, the handler raises one alert, the collection in
\* memory stays as it is, the modal and editingShow stay as they are (an open
\* modal stays open on its record), and no further write is issued.
C11_FailedWriteKeepsState ==
  [][\A n \in 1..MaxWrites :
       FailedWrite(n) =>
         /\ alerts' = alerts + 1
         /\ shows' = shows
         /\ isModalOpen' = isModalOpen
         /\ editingShow' = editingShow
         /\ formData' = formData
         /\ cloudWrites' = cloudWrites
         /\ Len(cloudCalls') = Len(cloudCalls) - 1]_vars

\* the save of an edited record was refused: the modal is open on the record
C11_EditRefused ==
  /\ variant = "remote"
  /\ alerts = 1
  /\ cloudWrites = 1
  /\ cloudCalls = <<>>
  /\ isModalOpen
  /\ editingShow # None
  /\ shows # <<>>

\* the lists a snapshot delivers, each record under its document's identifier
DeliveredLists ==
  {l \in SeqsUpTo({Rec(i, Ch.letterA, 40) : i \in ForeignIds}, MaxShows) :
     Cardinality(IdSet(l)) = Len(l)}

\* C12: every snapshot replaces the whole collection: right after it the
\* collection holds exactly the snapshot's records, in the snapshot's order,
\* each under its document's identifier; and whatever local saves and deletes
\* are interleaved, the collection is always one delivered snapshot (or still
\* empty), never a mix of two.
C12_SnapshotReplaces ==
  /\ [](variant = "remote" => shows \in DeliveredLists)
  /\ [][\A docs \in CloudSnapshots :
          Snapshot(docs) =>
            /\ Len(shows') = Len(docs)
            /\ \A i \in 1..Len(docs) :
                 /\ shows'[i].id = docs[i].docId
                 /\ shows'[i].title = docs[i].data.title
                 /\ shows'[i].userRating = docs[i].data.userRating]_vars

\* a snapshot of two documents is held while a local write is awaited
C12_SnapshotDuringWrite ==
  /\ variant = "remote"
  /\ Len(shows) = 2
  /\ cloudCalls # <<>>

\* C16: without a Firebase projectId (db is null) no snapshot is ever
\* delivered, so the collection stays empty; no save or delete reaches the
\* remote store; the page leaves the loading state once mounted; and the
\* degraded-mode warning is up at startup.
C16_OfflineDegraded ==
  variant = "remote" /\ ~isFirebaseConnected =>
    /\ shows = <<>>
    /\ cloudWrites = 0
    /\ cloudCalls = <<>>
    /\ load = "done" => ~isLoading
    /\ load = "mount" => showConfigWarning

\* a save was attempted without a connection
C16_OfflineSaveTried ==
  /\ variant = "remote"
  /\ ~isFirebaseConnected
  /\ load = "done"
  /\ alerts > 0
  /\ isModalOpen

\* the requests of a method among those sent so far
RequestsOf(reqs, method) == SelectSeq(reqs, LAMBDA r : r.method = method)

\* the step sends no request
NothingSent == ghRequests' = ghRequests

\* the step sends one request, a write of the whole list under the marker sha
OneWriteSent(sha, list) ==
  /\ Len(ghRequests') = Len(ghRequests) + 1
  /\ SubSeq(ghRequests', 1, Len(ghRequests)) = ghRequests
  /\ ghRequests'[Len(ghRequests')].method = "PUT"
  /\ ghRequests'[Len(ghRequests')].sha = sha
  /\ Atob(ghRequests'[Len(ghRequests')].content).ok
  /\ Atob(ghRequests'[Len(ghRequests')].content).val = Utf8Encode(StringifyPretty(list))

\* C13 as stated: every sync, once its read is answered, submits one overwrite
\* tagged with the file's marker; a refused write ends in 'error' with nothing
\* else sent and the collection and localStorage as they were.
C13_EverySyncWritesTagged ==
  [][\A n \in 1..MaxSyncs :
       /\ \A o \in GetOutcomes :
            n \in 1..Len(syncCalls) /\ GetResponds(n, o) =>
              OneWriteSent(remoteSha, syncCalls[n].shows)
       /\ \A o \in PutOutcomes \ {"ok"} :
            n \in 1..Len(syncCalls) /\ PutResponds(n, o) =>
              syncStatus' = "error" /\ NothingSent /\ shows' = shows /\ storage' = storage]_vars

\* C13: a sync whose read is answered ok submits one overwrite of the whole
\* list it was started on, tagged with the marker read; a read answered not ok
\* is followed by one overwrite without a marker; a read that throws is
\* followed by no write and the status 'error'. A write that is refused or
\* throws sets the status 'error', sends nothing more, and leaves the
\* collection and localStorage as they were; no sync ever sends a second write.
C13_SyncWritesOnce ==
  /\ [](variant = "sync" =>
          Len(RequestsOf(ghRequests, "PUT")) + Len(SelectSeq(syncCalls, LAMBDA c : c.pc = "get"))
            <= Len(RequestsOf(ghRequests, "GET")))
  /\ [][\A n \in 1..MaxSyncs :
          /\ n \in 1..Len(syncCalls) /\ GetResponds(n, "ok") =>
               OneWriteSent(remoteSha, syncCalls[n].shows)
          /\ n \in 1..Len(syncCalls) /\ GetResponds(n, "notok") =>
               OneWriteSent(NoSha, syncCalls[n].shows)
          /\ n \in 1..Len(syncCalls) /\ GetResponds(n, "throws") =>
               NothingSent /\ syncStatus' = "error" /\ shows' = shows /\ storage' = storage
          /\ \A o \in PutOutcomes \ {"ok"} :
               n \in 1..Len(syncCalls) /\ PutResponds(n, o) =>
                 /\ syncStatus' = "error"
                 /\ NothingSent
                 /\ shows' = shows
                 /\ storage' = storage
                 /\ Len(syncCalls') = Len(syncCalls) - 1]_vars

\* a write tagged with a marker the file no longer has was refused
C13_StaleWriteRefused ==
  /\ variant = "sync"
  /\ syncStatus = "error"
  /\ syncCalls = <<>>
  /\ Len(RequestsOf(ghRequests, "PUT")) = 1
  /\ RequestsOf(ghRequests, "PUT")[1].sha = 1
  /\ remoteSha = 2

\* the text read from the picked file is not JSON, or is JSON but no array
MalformedFile ==
  pendingFile # None /\ (~JsonParse(pendingFile[1]).ok \/ ~JsonParse(pendingFile[1]).isArray)

\* C14: when the picked import file is malformed (not JSON, or JSON that is no
\* array), reader.onload raises a message for the user and leaves the
\* collection and localStorage untouched.
C14_MalformedRejected ==
  [][\A confirmed \in BOOLEAN :
       MalformedFile /\ ReaderOnload(confirmed) =>
         alerts' = alerts + 1 /\ shows' = shows /\ storage' = storage]_vars

\* the text read from the picked file is a JSON array
ArrayFile ==
  pendingFile # None /\ JsonParse(pendingFile[1]).ok /\ JsonParse(pendingFile[1]).isArray

\* C15: a merge is committed only after the user confirms: when the
\* confirmation of a file import or of a shared-link import is declined, the
\* collection and localStorage stay as they were, and the shared payload stays
\* pending.
C15_DeclinedChangesNothing ==
  [][/\ ArrayFile /\ ReaderOnload(FALSE) => shows' = shows /\ storage' = storage
     /\ ImportSharedData(FALSE) =>
          shows' = shows /\ storage' = storage /\ sharedData' = sharedData /\ sharedData' # None]_vars

\* a list that would replace a record of the collection awaits the answer
C15_AwaitingAnswer ==
  /\ ArrayFile
  /\ shows # <<>>
  /\ IdSet(JsonParse(pendingFile[1]).val) \cap IdSet(shows) # {}

\* the positions of a list whose record does not carry the identifier
OtherPositions(list, id) == {i \in 1..Len(list) : list[i].id # id}

\* C17: delete in the local variants: declined, the collection (and
\* localStorage) stays as it was; accepted, exactly the records carrying the
\* identifier are removed and every other record keeps its content and its
\* place relative to the others.
C17_DeleteRemovesExactly ==
  [][\A id \in IdSet(shows) :
       /\ HandleDelete(id, FALSE) => shows' = shows /\ storage' = storage
       /\ HandleDelete(id, TRUE) =>
            /\ \A i \in 1..Len(shows') : shows'[i].id # id
            /\ Len(shows') = Cardinality(OtherPositions(shows, id))
            /\ \A i \in OtherPositions(shows, id) :
                 shows'[Cardinality({j \in OtherPositions(shows, id) : j <= i})] = shows[i]]_vars

\* the last record of an archive opened from a share link was deleted
C17_LastDeleted ==
  /\ variant = "share"
  /\ shows = <<>>
  /\ storage # None
  /\ sharedData = None

\* C18: save in the local variants: in edit mode the record at the edited
\* identifier is replaced in place, keeping its identifier and position, the
\* size of the collection and every other record; in create mode a record
\* with a new identifier is put first and the collection grows by one.
C18_SaveInPlace ==
  [][HandleSave =>
       IF editingShow # None
         THEN /\ Len(shows') = Len(shows)
              /\ \E k \in 1..Len(shows) :
                   /\ shows[k].id = editingShow[1].id
                   /\ shows'[k].id = editingShow[1].id
                   /\ shows'[k].title = formData.title
                   /\ \A j \in 1..Len(shows) : j # k => shows'[j] = shows[j]
         ELSE /\ Len(shows') = Len(shows) + 1
              /\ shows'[1].id \notin IdSet(shows)
              /\ shows'[1].title = formData.title
              /\ Tail(shows') = shows]_vars

\* what the filter step of filteredShows keeps, before the sort
KeptShows == FilterShows(shows, ToLowerCase(searchQuery), selectedYear)

\* C19: with an empty search query and the year 'All' the filter keeps every
\* record of the collection, unchanged and in the collection's order; the
\* view then holds as many records as the collection.
C19_EmptyQueryKeepsAll ==
  searchQuery = <<>> /\ selectedYear = AllYears =>
    /\ KeptShows = shows
    /\ Len(filteredShows) = Len(shows)

\* three records are listed under the empty query after another query was tried
C19_AllListed ==
  /\ searchQuery = <<>>
  /\ selectedYear = AllYears
  /\ Len(shows) = 3
  /\ sortType = "title-asc"

\* the ways of arranging n positions
Arrangements(n) == {f \in [1..n -> 1..n] : \A i, j \in 1..n : f[i] = f[j] => i = j}

\* C20: under 'rating-desc' a record with a higher rating stands before every
\* record with a lower one; under every sort type the view is a rearrangement
\* of the records the filter kept, no record is put before one the comparator
\* orders ahead of it, and records the comparator holds equal keep the order
\* they have in the collection.
C20_SortedStably ==
  /\ sortType = "rating-desc" =>
       \A i, j \in 1..Len(filteredShows) :
         filteredShows[i].userRating > filteredShows[j].userRating => i < j
  /\ \E f \in Arrangements(Len(KeptShows)) :
       /\ Len(filteredShows) = Len(KeptShows)
       /\ \A i \in 1..Len(KeptShows) : filteredShows[i] = KeptShows[f[i]]
       /\ \A i, j \in 1..Len(KeptShows) :
            i < j =>
              /\ Compare(sortType, filteredShows[i], filteredShows[j]) <= 0
              /\ Compare(sortType, filteredShows[i], filteredShows[j]) = 0 => f[i] < f[j]

\* three records, two of them rated alike, are listed by rating
C20_TiedRatingsListed ==
  /\ sortType = "rating-desc"
  /\ Len(filteredShows) = 3
  /\ filteredShows[1].userRating > filteredShows[2].userRating
  /\ filteredShows[2].userRating = filteredShows[3].userRating
  /\ filteredShows[1].id = shows[3].id

\* the step changes what the view is computed from
ViewRecomputed ==
  searchQuery' # searchQuery \/ selectedYear' # selectedYear \/ sortType' # sortType

\* C21: computing the filtered and sorted view never changes the backing
\* collection: whatever query, year or sort type the view is recomputed for,
\* the collection in memory and what localStorage holds are the same before
\* and after.
C21_ViewKeepsCollection ==
  [][ViewRecomputed => shows' = shows /\ storage' = storage]_vars

\* a view that differs from the collection in order and in length is shown
C21_ViewDiffers ==
  /\ Len(shows) = 3
  /\ sortType = "rating-asc"
  /\ searchQuery # <<>>
  /\ Len(filteredShows) = 2
  /\ filteredShows # SubSeq(shows, 1, 2)
  /\ filteredShows # SubSeq(shows, 2, 3)

\* the year a record is filed under: that of its end date, else of its start
\* date, else of its creation timestamp
RecordYear(s) ==
  IF Truthy(s.endDate) THEN YearOf(s.endDate[1])
  ELSE IF Truthy(s.startDate) THEN YearOf(s.startDate[1])
  ELSE YearText(1970 + (s.createdAt \div MsPerYear))

\* C22: with a year selected, the view holds a record of the collection
\* exactly when the record passes the search and the year it is filed under
\* is the selected one; availableYears is exactly the set of the years the
\* records are filed under.
C22_YearFilterExact ==
  /\ AvailableYears(shows) = {RecordYear(shows[i]) : i \in 1..Len(shows)}
  /\ selectedYear # AllYears =>
       \A i \in 1..Len(shows) :
         (\E k \in 1..Len(filteredShows) : filteredShows[k] = shows[i])
           <=> /\ MatchesSearch(shows[i], ToLowerCase(searchQuery))
               /\ RecordYear(shows[i]) = selectedYear

(* ------------------------ the metadata search -------------------------- *)

\* a record saved from the modal, with the network and the citation links of
\* the search that filled its form
Enriched(i, net, links) ==
  [id |-> i, title |-> Ch.letterA, userRating |-> 40, network |-> net, groundingLinks |-> links]

\* a citation link of an earlier search, a citation link of this run's search
Link == [old |-> 1, new |-> 2]

EnrichedRecs == {Enriched(5, Text.HBO, <<Link.old>>), Enriched(6, <<>>, <<>>)}

EnrichedCollections ==
  {l \in SeqsUpTo(EnrichedRecs, MaxShows) : Cardinality(IdSet(l)) = Len(l)}

\* fetchShowMetadata: {} (no API key, Response "False", a thrown error), the
\* OMDB record (no groundingLinks), the Gemini record (with groundingLinks)
EmptyResult == [network |-> None, groundingLinks |-> None]
FetchResults ==
  {EmptyResult,
   [network |-> Some(Text.FX), groundingLinks |-> None],
   [network |-> Some(Text.FX), groundingLinks |-> Some(<<Link.new>>)]}

\* ShowModal.tsx: groundingLinks: result.groundingLinks || []; part_001 has no
\* such line, the spread of result alone decides
LinksAfterSearch(v, result, prev) ==
  IF result.groundingLinks # None THEN result.groundingLinks[1]
  ELSE IF v = "share" THEN <<>> ELSE prev

\* handleSearch's setFormData(prev => ({...prev, ...result, ...}))
MergeMetadata(v, prev, result) ==
  [prev EXCEPT !.network = IF result.network # None THEN result.network[1] ELSE @,
               !.groundingLinks = LinksAfterSearch(v, result, @)]

\* the page after startup with an archive of records saved from the modal
ModalInit ==
  /\ variant \in {"share", "file"}
  /\ shows \in EnrichedCollections
  /\ variant = "share" => shows # <<>>
  /\ storage = Some(Stringify(shows))
  /\ sharedData = None
  /\ isDataLoaded = (variant = "file")
  /\ load = "done"
  /\ pendingFile = None
  /\ isModalOpen = FALSE
  /\ editingShow = None
  /\ formData = EmptyForm
  /\ clipboard = None
  /\ exportFile = None
  /\ ExtIdle

\* handleSearch up to its await: the button is disabled while loading or
\* without a title; target is the form the search was started from
HandleSearch ==
  /\ isModalOpen
  /\ ~loading
  /\ formData.title # NoTitle
  /\ loading' = TRUE
  /\ search' = Some([title |-> formData.title, target |-> formData.id])
  /\ UNCHANGED <<variant, shows, storage, sharedData, isDataLoaded, load, pendingFile,
                 isModalOpen, editingShow, formData, clipboard, exportFile, remoteVars,
                 syncVars, viewVars>>

\* handleSearch after its await: the result is merged into whatever the form
\* holds now (the modal stays mounted when closed), then setLoading(false)
SearchSettles(result) ==
  /\ search # None
  /\ formData' = MergeMetadata(variant, formData, result)
  /\ loading' = FALSE
  /\ search' = None
  /\ UNCHANGED <<variant, shows, storage, sharedData, isDataLoaded, load, pendingFile,
                 isModalOpen, editingShow, clipboard, exportFile, remoteVars,
                 syncVars, viewVars>>

ModalNext ==
  \/ OpenAdd
  \/ \E i \in 1..Len(shows) : HandleEdit(i)
  \/ CloseModal
  \/ \E t \in TitleInputs : ChangeTitle(t)
  \/ HandleSearch
  \/ \E result \in FetchResults : SearchSettles(result)

ModalSpec == ModalInit /\ [][ModalNext]_vars

\* C23: when fetchShowMetadata returns the empty record, the form keeps every
\* field it had, the citation links included, and loading is false again
C23_FailedSearchKeepsForm ==
  [][SearchSettles(EmptyResult) => formData' = formData /\ loading' = FALSE]_vars

\* C24: at most one sync is in flight, and while one is (from its start until
\* its PUT has completed) syncStatus is 'syncing', so the button is disabled
C24_OneSyncInFlight ==
  /\ Len(syncCalls) <= 1
  /\ syncCalls # <<>> => syncStatus = "syncing"

\* C25: a search's result is merged only into the form of the record the search
\* was started for: when the modal meanwhile holds the form of another record
\* (or of a new one), the late result leaves that form as it is
C25_LateResultKeepsOtherForm ==
  [][\A result \in FetchResults :
       SearchSettles(result) /\ isModalOpen /\ search[1].target # formData.id
         => formData' = formData]_vars

(* ------------------------ leaving the loading state -------------------- *)

\* part_003 and part_005 as they are constructed
LoadingInit == (Init /\ variant = "file") \/ RemoteInit

LoadingNext ==
  \/ MountFile
  \/ \E r \in FetchOutcomes : FetchResolveFile(r)
  \/ MountRemote
  \/ \E docs \in CloudSnapshots : Snapshot(docs)
  \/ SnapshotError
  \/ DismissWarning
  \/ OpenAdd
  \/ \E i \in 1..Len(shows) : HandleEdit(i)
  \/ \E t \in TitleInputs : ChangeTitle(t)
  \/ \E v \in SliderInputs \cup TypedInputs : ChangeRating(v)

\* the effects run once the component is mounted, the fetch of the static file
\* settles (resolved or rejected), and the listener hears from the service: a
\* snapshot or an error
LoadingSpec ==
  /\ LoadingInit
  /\ [][LoadingNext]_vars
  /\ WF_vars(MountFile)
  /\ WF_vars(\E r \in FetchOutcomes : FetchResolveFile(r))
  /\ WF_vars(MountRemote)
  /\ WF_vars((\E docs \in CloudSnapshots : Snapshot(docs)) \/ SnapshotError)

\* initializeData alone: every path of it ends with setIsDataLoaded(true)
FileEventuallyLoaded == (variant = "file") ~> isDataLoaded

\* C26: after startup the loading screen is eventually left: isDataLoaded
\* becomes true in the file variant, isLoading false in the remote variant,
\* whether the subscription delivers a snapshot or reports an error
C26_EventuallyLoaded ==
  <>(IF variant = "remote" THEN ~isLoading ELSE isDataLoaded)

(* ------------------------------ startup -------------------------------- *)

StartupNext ==
  \/ \E dataParam \in InitialParams : MountShare(dataParam)
  \/ MountFile
  \/ \E r \in FetchOutcomes : FetchResolveShare(r)
  \/ \E r \in FetchOutcomes : FetchResolveFile(r)
  \/ OpenAdd
  \/ CloseModal
  \/ \E t \in TitleInputs : ChangeTitle(t)
  \/ HandleSave
  \/ \E confirmed \in BOOLEAN : ImportSharedData(confirmed)
  \/ IgnoreShared

\* the page from its construction on, with the startup load and what the user
\* can do while it is pending and after it
StartupSpec == Init /\ [][StartupNext]_vars

\* the list localStorage holds, [] when it holds none
StoredList(opt) == IF Truthy(opt) /\ JsonParse(opt[1]).ok THEN JsonParse(opt[1]).val ELSE <<>>

\* the startup load has not chosen a source yet
LoadPending == load \in {"mount", "fetching"}

\* C27 as stated: no write to 'cinetrack_shows' happens before the startup load
\* has chosen a source
C27_NoWriteBeforeSource ==
  [][LoadPending /\ load' # "done" => storage' = storage]_vars

\* C27: while the startup load has not chosen a source, the persist effect does
\* not write the empty pre-load collection over a stored non-empty list, and no
\* step replaces such a list by []
C27_StoredListKept ==
  /\ [](LoadPending /\ StoredList(storage) # <<>>
          => StoredList(PersistEffect(variant, shows, isDataLoaded, storage)) # <<>>)
  /\ [][LoadPending /\ StoredList(storage) # <<>> => StoredList(storage') # <<>>]_vars

\* the file variant has started on a stored list of one record
C27_StartedOnStored ==
  /\ variant = "file" /\ load = "done" /\ isDataLoaded
  /\ shows = <<Rec(5, Ch.letterA, 40)>>
  /\ StoredList(storage) = shows

\* the 'data' parameter decodes to an array
Decodable(dataParam) ==
  Truthy(dataParam) /\ DecodeParam(dataParam[1]).ok /\ DecodeParam(dataParam[1]).isArray

\* the source order of a startup without a payload, r being how the fetch of
\* the static file settles: the stored list when it is not empty, else the
\* file's array, else the defaults
NormalOrder(saved, r) == IF StoredList(saved) # <<>> THEN StoredList(saved) ELSE FetchedShare(r)

\* startup on a link: a decodable array becomes the pending payload, the
\* collection stays and nothing is fetched; anything else is as no parameter
LinkHeldAtStartup ==
  \A dataParam \in InitialParams :
    MountShare(dataParam) =>
      IF Decodable(dataParam)
      THEN /\ sharedData' = Some(DecodeParam(dataParam[1]).val)
           /\ shows' = shows
           /\ load' = "done"
      ELSE <<shows', sharedData', load'>> =
             LET out == StartupShare(shows, storage, None)
             IN <<out.shows, out.sharedData, out.load>>

\* only accepting or ignoring takes the payload away
ClearedByAnswer ==
  sharedData # None /\ sharedData' # sharedData => IgnoreShared \/ ImportSharedData(TRUE)

\* C28 as stated: the link's payload is held pending and nothing is loaded, only
\* accepting or ignoring clears it, and after either the collection is the one
\* the source order would have produced (whatever the static file is), merged
\* with the payload when accepted
C28_NormalOrderAfterAnswer ==
  [][/\ LinkHeldAtStartup
     /\ ClearedByAnswer
     /\ IgnoreShared =>
          /\ shows' = shows
          /\ \A r \in FetchOutcomes : shows' = NormalOrder(storage, r)
     /\ ImportSharedData(TRUE) =>
          \A r \in FetchOutcomes : shows' = ImportMerge(NormalOrder(storage, r), sharedData[1])]_vars

\* C28: the link's payload is held pending and nothing is loaded then or later,
\* only accepting or ignoring clears it, ignoring leaves the collection and the
\* storage as they are, accepting merges the payload into the collection
C28_PayloadPendingUntilAnswer ==
  /\ [](sharedData # None => load = "done")
  /\ [][/\ LinkHeldAtStartup
        /\ ClearedByAnswer
        /\ IgnoreShared => shows' = shows /\ storage' = storage /\ sharedData' = None
        /\ ImportSharedData(TRUE) =>
             shows' = ImportMerge(shows, sharedData[1]) /\ sharedData' = None]_vars

\* a link's payload was accepted into a collection without those records
C28_PayloadAccepted ==
  /\ variant = "share" /\ load = "done" /\ sharedData = None
  /\ shows = <<Rec(5, Ch.letterA, 20)>>

\* C29: the selected year is 'All' or one of the years of the current
\* collection
C29_SelectedYearAvailable ==
  selectedYear = AllYears \/ selectedYear \in AvailableYears(shows)

(* --------------------------- the expanded row -------------------------- *)

\* a click on a row: setExpandedId(expandedId === show.id ? null : show.id)
ToggleExpanded(id) ==
  /\ MainUI
  /\ id \in IdSet(shows)
  /\ expandedId' = (IF expandedId = Some(id) THEN None ELSE Some(id))
  /\ UNCHANGED <<variant, shows, storage, sharedData, isDataLoaded, load, pendingFile,
                 isModalOpen, editingShow, formData, clipboard, exportFile, remoteVars,
                 syncVars, searchQuery, selectedYear, sortType, modalVars>>

ExpandNext ==
  \/ MountRemote
  \/ \E docs \in CloudSnapshots : Snapshot(docs)
  \/ \E id \in IdSet(shows) : ToggleExpanded(id)
  \/ \E id \in IdSet(shows), confirmed \in BOOLEAN : DeleteRemote(id, confirmed)
  \/ \E n \in 1..Len(cloudCalls), ok \in BOOLEAN : CloudSettles(n, ok)

\* part_005 with its table: rows are expanded and deleted while snapshots arrive
ExpandSpec == RemoteInit /\ [][ExpandNext]_vars

\* C30: expandedId is null or the identifier of a record of the collection
C30_ExpandedRowExists ==
  expandedId = None \/ expandedId[1] \in IdSet(shows)

====
